---- MODULE Spec2Model ----
(***************************************************************************)
(* SyncPlay synchronization engine of jellyfin-finetic:                    *)
(*   lib/syncplay/time-sync        clock-offset estimator (TimeSync)       *)
(*   lib/syncplay/command-handler  command scheduler (CommandHandler)      *)
(*   lib/syncplay/message-handlers group reconciler (MessageHandlers)      *)
(*   contexts/SyncPlayContext      playback orchestrator (SyncPlayProvider)*)
(*                                                                         *)
(* Times are integer milliseconds (Date.getTime()).  A JavaScript number   *)
(* that may carry a fractional half millisecond (Measurement.getOffset)    *)
(* is carried as an integer count of half-milliseconds; NewDate is the     *)
(* Date constructor's truncation of such a value to whole milliseconds.    *)
(* A nullable value is a sequence: <<>> is null, <<v>> is the value v.     *)
(***************************************************************************)
EXTENDS Integers, Sequences, FiniteSets, TLC

VARIABLES
    now,                \* the local clock, Date.now()
    \* ---- TimeSync ----
    measurement,        \* TimeSync.measurement (nullable)
    measurements,       \* TimeSync.measurements
    inserted,           \* every Measurement passed to updateTimeOffset since the last reset
    roundTrip,          \* last localDateToRemote / remoteDateToLocal round trip (nullable)
    \* ---- CommandHandler ----
    lastCommand,        \* CommandHandler.lastCommand (nullable)
    scheduledTimeouts,  \* CommandHandler.scheduledTimeouts: set of <<commandKey, timer id>>
    executedCommands,   \* CommandHandler.executedCommands
    timers,             \* the armed setTimeout timers of scheduleCommand
    nextTimerId,        \* id the next setTimeout returns
    dispatched,         \* calls of callbacks.dispatchCommand, in order
    warnings,           \* console.warn calls of scheduleCommand, in order
    handled,            \* outcome of every handleCommand call, in order
    awaitingSync,       \* scheduleCommand calls suspended in forceTimeSyncUpdate, in order
    \* ---- MessageHandlers / SyncPlayProvider ----
    currentGroup,       \* syncPlayGroupAtom (nullable)
    currentGroupRef,    \* currentGroupRef.current (nullable)
    isPlaying,          \* isPlaying state
    isProcessingSyncPlayUpdate,
    capturedProcessing, \* isProcessingSyncPlayUpdate as the callbacks of MessageHandlers see it
    currentPlaylist,    \* currentPlaylist state
    currentPlayingItemIdRef, \* currentPlayingItemIdRef.current (nullable)
    lastReadyPositionRef,    \* lastReadyPositionRef.current (nullable)
    playerReady,        \* what callbacks.isPlayerReady() returns
    tasks,              \* suspended handleStateUpdate / handlePlayQueue calls
    nextTaskId,         \* number of group updates received so far
    readyRequests,      \* calls of syncPlayReady, in order
    unpauseRequests,    \* number of syncPlayUnpause calls
    played,             \* calls of callbacks.playMedia, in order
    finished,           \* the handleStateUpdate / handlePlayQueue calls that have ended
    \* ---- TimeSync poller ----
    pollingInterval,    \* TimeSync.pollingInterval
    pings,              \* TimeSync.pings
    pingStop,           \* TimeSync.pingStop
    poller,             \* TimeSync.poller: the armed timeout of internalRequestPing
                        \* (nullable)
    inFlight,           \* requestPing calls that have not settled yet
    samples,            \* ping responses since construction or the last forceUpdate
    \* ---- WebSocketManager ----
    ws,                 \* WebSocketManager.ws: the socket held (nullable)
    isConnecting,       \* WebSocketManager.isConnecting
    keepAliveInterval,  \* WebSocketManager.keepAliveInterval: id of the timer held (nullable)
    sockets,            \* readyState of every WebSocket the manager has created, by id
    intervals,          \* the armed setInterval timers of scheduleKeepAlive
    lastSend,           \* the last WebSocketManager.send call and the socket that
                        \* transmitted it, if any (nullable)
    \* ---- SyncPlayProvider session ----
    isEnabled,          \* isSyncPlayEnabledAtom
    connectionStatus,   \* syncPlayConnectionStatusAtom
    error,              \* error state (nullable)
    isLoading,          \* isLoading state
    \* ---- inbound frames ----
    messageIdsReceived, \* window.messageIdsReceived
    frameLog,           \* the last frame given to handleMessage and what became of it
                        \* (nullable)
    \* ---- local playback requests ----
    localRequests       \* calls of requestPause / requestUnpause / requestStop /
                        \* requestSeek, in order, with the state they were made in

tsVars == <<measurement, measurements, inserted, roundTrip>>
chVars == <<lastCommand, scheduledTimeouts, executedCommands, timers, nextTimerId,
            dispatched, warnings, handled, awaitingSync>>
mhVars == <<currentGroup, currentGroupRef, isPlaying, isProcessingSyncPlayUpdate,
            capturedProcessing,
            currentPlaylist, currentPlayingItemIdRef, lastReadyPositionRef, playerReady,
            tasks, nextTaskId, readyRequests, unpauseRequests, played, finished>>
pollVars == <<pollingInterval, pings, pingStop, poller, inFlight, samples>>
wsVars == <<ws, isConnecting, keepAliveInterval, sockets, intervals, lastSend>>
spVars == <<isEnabled, connectionStatus, error, isLoading>>
frVars == <<messageIdsReceived, frameLog>>
uiVars == <<localRequests>>
vars == <<now, tsVars, chVars, mhVars, pollVars, wsVars, spVars, frVars, uiVars>>

Null == <<>>
Some(v) == <<v>>

\* The last n elements of sequence s (all of s when it is shorter).
LastN(s, n) == IF Len(s) <= n THEN s ELSE SubSeq(s, Len(s) - n + 1, Len(s))

(***************************************************************************)
(* Bounds of the model                                                     *)
(***************************************************************************)
MaxInserts == 9         \* updateTimeOffset calls per run of SpecEstimate

MaxCommands == 2        \* handleCommand calls per run of SpecCommand
MaxUpdates == 3         \* group updates received per run of SpecReconciler
MaxSockets == 2         \* sockets the manager creates per run
MaxFrameId == 11        \* distinct MessageIds the server uses per run
MaxPings == 2           \* ping responses per run of SpecCommand
MaxSamples == 4         \* ping responses per run of SpecPoller
MaxInFlight == 2        \* ping requests in flight at a time
MaxLocalRequests == 2   \* requests of the local player per run

StartTime == 100 * 1000 \* Date.now() when the model starts

\* The instants at which the model reads the clock: three within 9 s, and two more
\* than StaleAge after them.
Instants ==
    { StartTime, StartTime + 3000, StartTime + 9000, StartTime + 34000,
      StartTime + 40000 }

(***************************************************************************)
(* lib/syncplay/time-sync (the revision with Measurement.timestamp)        *)
(***************************************************************************)
NumberOfTrackedMeasurements == 8
PollingIntervalGreedy == 1000
PollingIntervalLowProfile == 60000
GreedyPingCount == 3
StaleAge == 30000

\* new Date(x).getTime() for x given in half-milliseconds: TimeClip truncates
\* toward zero.
NewDate(halfMs) == IF halfMs >= 0 THEN halfMs \div 2 ELSE -((-halfMs) \div 2)

\* new Measurement(requestSent, requestReceived, responseSent, responseReceived)
NewMeasurement(requestSent, requestReceived, responseSent, responseReceived) ==
    [requestSent |-> requestSent, requestReceived |-> requestReceived,
     responseSent |-> responseSent, responseReceived |-> responseReceived,
     timestamp |-> now]

\* Measurement.getOffset(), in half-milliseconds (the code divides the sum by 2).
getOffset(m) == (m.requestReceived - m.requestSent) + (m.responseSent - m.responseReceived)

\* Measurement.getDelay(), in milliseconds.
getDelay(m) == (m.responseReceived - m.requestSent) - (m.responseSent - m.requestReceived)

\* TimeSync.isReady()
isReady == measurement # Null

\* TimeSync.getTimeOffset() when this.measurement is m, in half-milliseconds.
TimeOffsetOf(m) == IF m # Null THEN getOffset(m[1]) ELSE 0

\* TimeSync.getTimeOffset(), in half-milliseconds.
getTimeOffset == TimeOffsetOf(measurement)

\* TimeSync.isStale() when this.measurement is m and Date.now() is clock.
StaleAt(m, clock) == IF m = Null THEN TRUE ELSE clock - m[1].timestamp > StaleAge

\* TimeSync.isStale()
isStale == StaleAt(measurement, now)

\* measurements.push(m); if (length > NumberOfTrackedMeasurements) measurements.shift()
PushTracked(ms, m) ==
    LET pushed == Append(ms, m)
    IN  IF Len(pushed) > NumberOfTrackedMeasurements THEN Tail(pushed) ELSE pushed

\* A mutant of SortedFirst: the sort is dropped and the oldest sample is taken.
SortedFirstUnsorted(ms) == ms[1]

\* [...ms].sort((a, b) => a.getDelay() - b.getDelay())[0]: Array.prototype.sort is
\* stable, so among the samples of least delay the earliest in the array comes first.
SortedFirst(ms) ==
    ms[CHOOSE i \in 1..Len(ms) :
         \A j \in 1..Len(ms) :
            \/ getDelay(ms[i]) < getDelay(ms[j])
            \/ (getDelay(ms[i]) = getDelay(ms[j]) /\ i <= j)]

\* TimeSync.remoteDateToLocal(remote) when this.measurement is m.
RemoteToLocal(m, remote) == NewDate(2 * remote - TimeOffsetOf(m))

\* TimeSync.remoteDateToLocal(remote)
remoteDateToLocal(remote) == RemoteToLocal(measurement, remote)

\* TimeSync.localDateToRemote(local)
localDateToRemote(local) == NewDate(2 * local + getTimeOffset)

\* The ping exchanges the estimator is fed with: <<ms to the server, ms back,
\* clock skew of the server>>.
PingShapes == { <<1, 1, 0>>, <<2, 1, 0>>, <<1, 3, 4>> }

\* The Measurement of a ping exchange of shape p whose response arrives now.
MeasurementOf(p) ==
    LET sent == now - (p[1] + p[2])
    IN  NewMeasurement(sent, sent + p[1] + p[3], sent + p[1] + p[3], now)

\* The ping exchange behind every sample of SpecCommand: the server clock is 500 ms
\* ahead and the request takes 1 ms longer than the response (offset 500.5 ms).
SkewedPingShapes == { <<2, 1, 500>> }

\* Local instants converted by the round trip.
LocalInstants == { StartTime, StartTime + 1 }

\* TimeSync.updateTimeOffset(m)
UpdateTimeOffset(m) ==
    /\ Len(inserted) < MaxInserts
    /\ measurements' = PushTracked(measurements, m)
    /\ measurement' = Some(SortedFirst(measurements'))
    /\ inserted' = Append(inserted, m)
    /\ UNCHANGED <<wsVars, spVars, frVars, uiVars, pollVars, now, roundTrip, chVars, mhVars>>

\* TimeSync.resetMeasurements()
ResetMeasurements ==
    /\ inserted # <<>>
    /\ measurement' = Null
    /\ measurements' = <<>>
    /\ inserted' = <<>>
    /\ UNCHANGED <<wsVars, spVars, frVars, uiVars, pollVars, now, roundTrip, chVars, mhVars>>

\* remoteDateToLocal(localDateToRemote(new Date(t))) under the active measurement
ConvertRoundTrip(t) ==
    /\ roundTrip' = Some([local |-> t,
                          remote |-> localDateToRemote(t),
                          back |-> remoteDateToLocal(localDateToRemote(t))])
    /\ UNCHANGED <<wsVars, spVars, frVars, uiVars, pollVars, now, measurement, measurements, inserted, chVars, mhVars>>

(***************************************************************************)
(* The poller of TimeSync: startPing, stopPing, forceUpdate, the timeout   *)
(* of internalRequestPing and the ping requests in flight                  *)
(***************************************************************************)
\* The fields of TimeSync, the ping requests in flight and the count of samples, as
\* one value.
PollerState ==
    [pingStop |-> pingStop, pollingInterval |-> pollingInterval, poller |-> poller,
     pings |-> pings, inFlight |-> inFlight, samples |-> samples,
     measurement |-> measurement, measurements |-> measurements,
     inserted |-> inserted]

\* The fields of TimeSync take the values of s.
SetPoller(s) ==
    /\ pingStop' = s.pingStop
    /\ pollingInterval' = s.pollingInterval
    /\ poller' = s.poller
    /\ pings' = s.pings
    /\ inFlight' = s.inFlight
    /\ samples' = s.samples
    /\ measurement' = s.measurement
    /\ measurements' = s.measurements
    /\ inserted' = s.inserted

\* A mutant of internalRequestPing: the timeout is always armed with the greedy
\* interval.
internalRequestPingGreedy(s, clock) ==
    IF s.poller = Null /\ ~s.pingStop
    THEN [s EXCEPT !.poller = Some([interval |-> PollingIntervalGreedy,
                                    due |-> clock + PollingIntervalGreedy,
                                    samples |-> s.samples])]
    ELSE s

\* TimeSync.internalRequestPing() at local time clock: arms the timeout with the
\* polling interval current at that moment.
internalRequestPing(s, clock) ==
    IF s.poller = Null /\ ~s.pingStop
    THEN [s EXCEPT !.poller = Some([interval |-> s.pollingInterval,
                                    due |-> clock + s.pollingInterval,
                                    samples |-> s.samples])]
    ELSE s

\* TimeSync.onPingResponseCallback(result) for the Measurement m built from result
onPingResponseCallback(s, m) ==
    LET kept == PushTracked(s.measurements, m)
    IN  [s EXCEPT !.measurements = kept,
                  !.measurement = Some(SortedFirst(kept)),
                  !.inserted = Append(@, m),
                  !.samples = @ + 1,
                  !.pollingInterval = IF s.pings >= GreedyPingCount
                                      THEN PollingIntervalLowProfile ELSE @,
                  !.pings = IF s.pings >= GreedyPingCount THEN @ ELSE @ + 1]

\* A mutant of onPingRequestErrorCallback: the failure drops the estimate and
\* restarts the count of pings.
onPingRequestErrorCallbackResets(s) ==
    [s EXCEPT !.measurement = Null, !.measurements = <<>>, !.pings = 0]

\* TimeSync.onPingRequestErrorCallback(error): the error is logged.
onPingRequestErrorCallback(s) == s

\* TimeSync.startPing(): the first request is made at once.
startPing(s) == [s EXCEPT !.pingStop = FALSE, !.inFlight = @ + 1]

\* TimeSync.stopPing()
stopPing(s) == [s EXCEPT !.pingStop = TRUE, !.poller = Null]

\* TimeSync.forceUpdate(), and what forceUpdateAndWait does to the poller
forceUpdate(s) ==
    startPing([stopPing(s) EXCEPT !.pollingInterval = PollingIntervalGreedy,
                                  !.pings = 0, !.samples = 0])

\* What the poller actions leave alone.
notPollerVars == <<now, roundTrip, chVars, mhVars, wsVars, spVars, frVars, uiVars>>

\* TimeSync.startPing()
StartPing ==
    /\ pingStop
    /\ inFlight < MaxInFlight
    /\ SetPoller(startPing(PollerState))
    /\ UNCHANGED notPollerVars

\* TimeSync.stopPing()
StopPing ==
    /\ ~pingStop
    /\ SetPoller(stopPing(PollerState))
    /\ UNCHANGED notPollerVars

\* TimeSync.forceUpdate()
ForceUpdate ==
    /\ inFlight < MaxInFlight
    /\ SetPoller(forceUpdate(PollerState))
    /\ UNCHANGED notPollerVars

\* The setTimeout callback of internalRequestPing: the next request is made.
PollerFire ==
    /\ poller # Null
    /\ now >= poller[1].due
    /\ inFlight < MaxInFlight
    /\ poller' = Null
    /\ inFlight' = inFlight + 1
    /\ UNCHANGED <<pingStop, pollingInterval, pings, samples, tsVars, notPollerVars>>

\* A ping request in flight rejects: onPingRequestErrorCallback, then
\* internalRequestPing.
PingFailure ==
    /\ inFlight > 0
    /\ SetPoller(internalRequestPing(
           onPingRequestErrorCallback([PollerState EXCEPT !.inFlight = @ - 1]), now))
    /\ UNCHANGED notPollerVars

(***************************************************************************)
(* lib/syncplay/command-handler (the revision whose scheduleCommand is     *)
(* async and awaits calculateCommandTime; message-handlers awaits it)      *)
(***************************************************************************)
maxAllowedDelay == 5000

\* A SyncPlayCommand.  When is carried as the instant new Date(command.When) parses.
SyncPlayCommand(when, positionTicks, command, playlistItemId) ==
    [When |-> when, PositionTicks |-> positionTicks, Command |-> command,
     PlaylistItemId |-> playlistItemId]

\* The commands the server sends in the model.
Commands ==
    { SyncPlayCommand(StartTime + 2000, 500000000, "Pause", "a"),
      SyncPlayCommand(StartTime + 2000, 500000000, "Pause", "b"),
      SyncPlayCommand(StartTime + 8000, 0, "Unpause", "a"),
      SyncPlayCommand(StartTime + 36000, 0, "Stop", "a") }

\* command.Command.toLowerCase()
CommandType(c) ==
    CASE c.Command = "Unpause" -> "unpause"
      [] c.Command = "Pause" -> "pause"
      [] c.Command = "Seek" -> "seek"
      [] c.Command = "Stop" -> "stop"

\* `${command.When}-${command.Command}-${command.PositionTicks}`
CommandKey(c) == <<c.When, c.Command, c.PositionTicks>>

\* The CommandHandler's fields and the effects of its callbacks, as one value.
HandlerState ==
    [executedCommands |-> executedCommands, scheduledTimeouts |-> scheduledTimeouts,
     timers |-> timers, nextTimerId |-> nextTimerId, dispatched |-> dispatched,
     warnings |-> warnings, handled |-> handled]

\* A mutant of isDuplicate: the comparison with the last command always fails.
isDuplicateNever(c) == FALSE

\* CommandHandler.isDuplicate(command)
isDuplicate(c) ==
    /\ lastCommand # Null
    /\ lastCommand[1].when = c.When
    /\ lastCommand[1].positionTicks = c.PositionTicks
    /\ lastCommand[1].command = c.Command
    /\ lastCommand[1].playlistItemId = c.PlaylistItemId

\* CommandHandler.handleDuplicate(command, isPlaying): both branches return true.
handleDuplicate(c) ==
    IF remoteDateToLocal(c.When) > now THEN TRUE ELSE TRUE

\* CommandHandler.storeLastCommand(command)
storeLastCommand(c) ==
    Some([when |-> c.When, positionTicks |-> c.PositionTicks, command |-> c.Command,
          playlistItemId |-> c.PlaylistItemId])

\* CommandHandler.executeCommandImmediately, for the handleCommand call number call
executeCommandImmediately(h, commandKey, commandType, positionTicks, call) ==
    [h EXCEPT !.executedCommands = @ \cup {commandKey},
              !.dispatched = Append(@, [type |-> commandType,
                                        positionTicks |-> positionTicks,
                                        call |-> call])]

\* CommandHandler.clearScheduledCommands(): clearTimeout of every timer in the map
clearScheduledCommands(h) ==
    [h EXCEPT !.timers = { t \in @ : \A e \in h.scheduledTimeouts : e[2] # t.id },
              !.scheduledTimeouts = {}]

\* A mutant of ArmOrExecute: a negative delay is clamped and armed like any other.
ArmOrExecuteClamped(h, c, delay, clock, call) ==
    LET d == IF delay < 0 THEN 0 ELSE delay
    IN  [h EXCEPT !.timers = @ \cup {[id |-> h.nextTimerId, key |-> CommandKey(c),
                                      type |-> CommandType(c),
                                      positionTicks |-> c.PositionTicks,
                                      delay |-> d, due |-> clock + d, call |-> call]},
                  !.scheduledTimeouts =
                      { e \in @ : e[1] # CommandKey(c) }
                          \cup {<<CommandKey(c), h.nextTimerId>>},
                  !.nextTimerId = @ + 1,
                  !.handled[call].outcome = "timer",
                  !.handled[call].delay = Some(delay),
                  !.handled[call].armedAt = Some(clock)]

\* CommandHandler.scheduleCommand from `let delay = ...` on: what it does with the
\* delay it computed, at local time clock.
ArmOrExecute(h, c, delay, clock, call) ==
    IF delay < 0
    THEN [executeCommandImmediately(h, CommandKey(c), CommandType(c),
                                    c.PositionTicks, call)
            EXCEPT !.handled[call].outcome = "immediate",
                   !.handled[call].delay = Some(delay)]
    ELSE [h EXCEPT !.warnings = IF delay > maxAllowedDelay
                                THEN Append(@, [type |-> CommandType(c),
                                                delay |-> delay, call |-> call])
                                ELSE @,
                   !.timers = @ \cup {[id |-> h.nextTimerId, key |-> CommandKey(c),
                                       type |-> CommandType(c),
                                       positionTicks |-> c.PositionTicks,
                                       delay |-> delay, due |-> clock + delay,
                                       call |-> call]},
                   !.scheduledTimeouts =
                       { e \in @ : e[1] # CommandKey(c) }
                           \cup {<<CommandKey(c), h.nextTimerId>>},
                   !.nextTimerId = @ + 1,
                   !.handled[call].outcome = "timer",
                   !.handled[call].delay = Some(delay),
                   !.handled[call].armedAt = Some(clock)]

\* CommandHandler.calculateCommandTime after its await, when timeSync.measurement is m
calculateCommandTime(m, serverTime) ==
    IF m = Null THEN serverTime ELSE RemoteToLocal(m, serverTime)

\* A mutant of ScheduleWithTime: the conversion uses the estimate that was active
\* before the step, not the one handed over.
ScheduleWithTimeActive(h, m, c, localTime, clock, call) ==
    ArmOrExecute(h, c, calculateCommandTime(measurement, c.When) - localTime, clock, call)

\* CommandHandler.scheduleCommand from the return of calculateCommandTime on;
\* localTime was read before the await.
ScheduleWithTime(h, m, c, localTime, clock, call) ==
    ArmOrExecute(h, c, calculateCommandTime(m, c.When) - localTime, clock, call)

\* The suspended scheduleCommand calls resumed in order when forceTimeSyncUpdate
\* resolves: the promises resolve in one task, so nothing runs in between.
RECURSIVE ResumeAll(_, _, _, _)
ResumeAll(h, m, calls, clock) ==
    IF calls = <<>> THEN h
    ELSE ResumeAll(ScheduleWithTime(h, m, calls[1].command, calls[1].localTime,
                                    clock, calls[1].call),
                   m, Tail(calls), clock)

\* The outcome recorded when handleCommand is entered with command c.
Entry(c, outcome) ==
    [command |-> c, outcome |-> outcome, delay |-> Null, localTime |-> now,
     armedAt |-> Null, wasLast |-> lastCommand = storeLastCommand(c)]

\* The fields of the handler take the values of h.
SetHandler(h) ==
    /\ executedCommands' = h.executedCommands
    /\ scheduledTimeouts' = h.scheduledTimeouts
    /\ timers' = h.timers
    /\ nextTimerId' = h.nextTimerId
    /\ dispatched' = h.dispatched
    /\ warnings' = h.warnings
    /\ handled' = h.handled

\* MessageHandlers.handleCommand(message) for message.Data = c, up to the point
\* where it is suspended (forceTimeSyncUpdate) or returns.
HandleCommand(c) ==
    /\ Len(handled) < MaxCommands
    /\ LET call == Len(handled) + 1
       IN  IF isDuplicate(c) /\ handleDuplicate(c)
           THEN /\ handled' = Append(handled, Entry(c, "duplicate"))
                /\ UNCHANGED <<lastCommand, scheduledTimeouts, executedCommands, timers,
                               nextTimerId, dispatched, warnings, awaitingSync,
                               pollVars>>
           ELSE LET cleared == clearScheduledCommands(HandlerState)
                IN  /\ lastCommand' = storeLastCommand(c)
                    /\ IF CommandKey(c) \in executedCommands
                       THEN /\ SetHandler([cleared EXCEPT !.handled =
                                              Append(@, Entry(c, "executed"))])
                            /\ UNCHANGED <<awaitingSync, pollVars>>
                       ELSE IF isReady /\ isStale
                       THEN /\ SetHandler([cleared EXCEPT !.handled =
                                              Append(@, Entry(c, "suspended"))])
                            /\ awaitingSync' = Append(awaitingSync,
                                   [command |-> c, localTime |-> now, call |-> call])
                            /\ pollingInterval' = PollingIntervalGreedy
                            /\ pings' = 0
                            /\ pingStop' = FALSE
                            /\ poller' = Null
                            /\ inFlight' = inFlight + 1
                            /\ samples' = 0
                       ELSE /\ SetHandler(ScheduleWithTime(
                                   [cleared EXCEPT !.handled =
                                       Append(@, Entry(c, "suspended"))],
                                   measurement, c, now, now, call))
                            /\ UNCHANGED <<awaitingSync, pollVars>>
    /\ UNCHANGED <<wsVars, spVars, now, tsVars, mhVars>>

\* A mutant of TimerFire: the callback runs without waiting for the timer to be due.
TimerFireEarly(t) ==
    /\ t \in timers
    /\ LET h == executeCommandImmediately(HandlerState, t.key, t.type,
                                          t.positionTicks, t.call)
       IN  SetHandler([h EXCEPT !.timers = @ \ {t},
                                !.scheduledTimeouts = { e \in @ : e[1] # t.key }])
    /\ UNCHANGED <<wsVars, spVars, frVars, uiVars, pollVars, now, lastCommand, awaitingSync, tsVars, mhVars>>

\* The setTimeout callback of scheduleCommand, for the armed timer t
TimerFire(t) ==
    /\ t \in timers
    /\ now >= t.due
    /\ LET h == executeCommandImmediately(HandlerState, t.key, t.type,
                                          t.positionTicks, t.call)
       IN  SetHandler([h EXCEPT !.timers = @ \ {t},
                                !.scheduledTimeouts = { e \in @ : e[1] # t.key }])
    /\ UNCHANGED <<wsVars, spVars, frVars, uiVars, pollVars, now, lastCommand, awaitingSync, tsVars, mhVars>>

\* TimeSync.onPingResponseCallback for a ping exchange of shape p: the sample is
\* inserted and callbacks.onUpdate runs, which resolves every forceUpdateAndWait
\* promise, so the suspended scheduleCommand calls go on with the new estimate.
OnPingResponseCallback(p) ==
    /\ Len(inserted) < MaxPings
    /\ measurements' = PushTracked(measurements, MeasurementOf(p))
    /\ measurement' = Some(SortedFirst(measurements'))
    /\ inserted' = Append(inserted, MeasurementOf(p))
    /\ SetHandler(ResumeAll(HandlerState, measurement', awaitingSync, now))
    /\ awaitingSync' = <<>>
    /\ IF pings >= GreedyPingCount
       THEN pollingInterval' = PollingIntervalLowProfile /\ UNCHANGED pings
       ELSE pings' = pings + 1 /\ UNCHANGED pollingInterval
    /\ samples' = samples + 1
    /\ UNCHANGED <<pingStop, poller, inFlight>>
    /\ UNCHANGED <<wsVars, spVars, frVars, uiVars, now, roundTrip, lastCommand, mhVars>>

\* A ping request in flight resolves with an exchange of shape p:
\* onPingResponseCallback, whose callbacks.onUpdate resolves every forceUpdateAndWait
\* promise, then internalRequestPing.
PingResponse(p) ==
    /\ inFlight > 0
    /\ Len(inserted) < MaxSamples
    /\ SetPoller(internalRequestPing(
           onPingResponseCallback([PollerState EXCEPT !.inFlight = @ - 1],
                                  MeasurementOf(p)), now))
    /\ SetHandler(ResumeAll(HandlerState, measurement', awaitingSync, now))
    /\ awaitingSync' = <<>>
    /\ UNCHANGED <<wsVars, spVars, frVars, uiVars, now, roundTrip, lastCommand, mhVars>>

\* The local clock advances to the instant t.
Tick(t) ==
    /\ t > now
    /\ now' = t
    /\ UNCHANGED <<wsVars, spVars, frVars, uiVars, pollVars, tsVars, chVars, mhVars>>

(***************************************************************************)
(* lib/syncplay/message-handlers and the callbacks SyncPlayProvider gives  *)
(* it.  A handler that awaits a network call or the player is a task: it   *)
(* runs up to the await in one step and goes on when the await ends.       *)
(***************************************************************************)
ReadyPositionThreshold == 1000000

\* StateUpdate payloads the server sends in the model: State, Reason, PositionTicks.
StateUpdates ==
    { [State |-> "Waiting", Reason |-> "Buffer", PositionTicks |-> 0],
      [State |-> "Waiting", Reason |-> "Buffer", PositionTicks |-> 20000000],
      [State |-> "Waiting", Reason |-> "Seek", PositionTicks |-> 0],
      [State |-> "Waiting", Reason |-> "Seek", PositionTicks |-> 600000],
      [State |-> "Waiting", Reason |-> "Ready", PositionTicks |-> 0],
      [State |-> "Waiting", Reason |-> "Unpause", PositionTicks |-> 0],
      [State |-> "Playing", Reason |-> "Unpause", PositionTicks |-> 0],
      [State |-> "Paused", Reason |-> "Pause", PositionTicks |-> 600000] }

\* GroupJoined payloads: the State of the group joined and its PositionTicks.
GroupInfos ==
    { [State |-> "Idle", PositionTicks |-> 0],
      [State |-> "Playing", PositionTicks |-> 0],
      [State |-> "Waiting", PositionTicks |-> 0] }

\* The queue entries of the model.
ItemA == [ItemId |-> "movieA", PlaylistItemId |-> "a"]
ItemB == [ItemId |-> "movieB", PlaylistItemId |-> "b"]

\* PlayQueue payloads.  Playlist is nullable (a missing Playlist field);
\* PlayingItemIndex counts from 0 as in the array access of the code.
PlayQueues ==
    { [Reason |-> r, Playlist |-> pl, PlayingItemIndex |-> i, IsPlaying |-> FALSE,
       StartPositionTicks |-> 0] :
        r \in {"NewPlaylist", "SetCurrentItem"},
        pl \in {Null, Some(<<>>), Some(<<ItemA, ItemB>>)},
        i \in {0, 1, 2} }

\* What fetchMediaDetails does: it resolves with the item, resolves with null
\* (a failure that is no authentication error) or rejects (an authentication error).
FetchOutcomes == {"item", "null", "authError"}

\* The group handleGroupJoined builds from data
GroupOfData(data) ==
    [State |-> data.State, StateReason |-> "undefined",
     PositionTicks |-> data.PositionTicks,
     IsPaused |-> (data.State = "Paused" \/ data.State = "Waiting")]

\* |a - b|
Abs(x) == IF x >= 0 THEN x ELSE -x

\* positionTicks !== undefined && positionTicks >= 0 ? positionTicks : (last ?? 0)
readyPosition(positionTicks, last) ==
    IF positionTicks >= 0 THEN positionTicks
    ELSE IF last # Null THEN last[1] ELSE 0

\* playlistData.Playlist?.[playlistData.PlayingItemIndex], nullable
PlayingItemOf(q) ==
    IF q.Playlist # Null /\ q.PlayingItemIndex + 1 \in 1..Len(q.Playlist[1])
    THEN Some(q.Playlist[1][q.PlayingItemIndex + 1])
    ELSE Null

\* playlistData.Playlist?.[playlistData.PlayingItemIndex]?.PlaylistItemId || null
NewPlaylistItemIdOf(q) ==
    IF PlayingItemOf(q) # Null THEN Some(PlayingItemOf(q)[1].PlaylistItemId) ELSE Null

\* What the handlers' tasks read and write, as one value.
ReconcilerState ==
    [tasks |-> tasks, finished |-> finished, readyRequests |-> readyRequests,
     lastReady |-> lastReadyPositionRef, unpause |-> unpauseRequests]

\* The values of r become the state.
SetReconciler(r) ==
    /\ tasks' = r.tasks
    /\ finished' = r.finished
    /\ readyRequests' = r.readyRequests
    /\ lastReadyPositionRef' = r.lastReady
    /\ unpauseRequests' = r.unpause

\* Task t is suspended at pc.
Suspend(r, t, pc) ==
    [r EXCEPT !.tasks = { x \in @ : x.id # t.id } \cup {[t EXCEPT !.pc = pc]}]

\* Task t has returned (or thrown), how says where.
Return(r, t, how) ==
    [r EXCEPT !.tasks = { x \in @ : x.id # t.id },
              !.finished = @ \cup {[t EXCEPT !.pc = how]}]

\* SyncPlayProvider.requestReady(true, positionTicks) up to its await of syncPlayReady
requestReady(r, t, positionTicks) ==
    [r EXCEPT !.lastReady = Some(positionTicks),
              !.readyRequests = Append(@, [isReady |-> TRUE,
                                           positionTicks |-> positionTicks,
                                           playlistItemId |-> currentPlayingItemIdRef,
                                           task |-> t.id])]

\* SyncPlayProvider.requestUnpause() up to its await of syncPlayUnpause; the
\* callback handed to MessageHandlers reads the isProcessingSyncPlayUpdate of the
\* render that created it.
requestUnpause(r) ==
    IF ~capturedProcessing THEN [r EXCEPT !.unpause = @ + 1] ELSE r

\* handleStateUpdate from line 318 on (previousState is not Waiting): the ready
\* position, the wait for the player and the ready request.
EnterWaitingReady(r, t) ==
    LET pos == readyPosition(t.update.PositionTicks, r.lastReady)
    IN  IF ~playerReady
        THEN Suspend(r, [t EXCEPT !.readyPosition = pos], "waitEnter")
        ELSE Suspend(requestReady(r, t, pos), t, "readyEnter")

\* handleStateUpdate from `if (previousState !== 'Waiting')` on
AfterBuffer(r, t) ==
    IF t.previousState # "Waiting"
    THEN IF t.update.Reason = "Unpause"
         THEN IF ~capturedProcessing
              THEN Suspend(requestUnpause(r), t, "unpauseEnter")
              ELSE EnterWaitingReady(r, t)
         ELSE EnterWaitingReady(r, t)
    ELSE LET positionChanged ==
                 \/ r.lastReady = Null
                 \/ Abs(t.update.PositionTicks - r.lastReady[1]) > ReadyPositionThreshold
         IN  IF positionChanged /\ r.lastReady # Null
             THEN Suspend(requestReady(r, t, t.update.PositionTicks), t, "readyChanged")
             ELSE Return(r, t, "done")

\* handleStateUpdate from `if (newState === 'Waiting')` on
AfterGroupChanged(r, t) ==
    IF t.update.State # "Waiting" THEN Return(r, t, "done")
    ELSE IF t.update.Reason = "Ready" THEN Return(requestUnpause(r), t, "done")
    ELSE IF t.update.Reason = "Buffer"
    THEN LET pos == readyPosition(t.update.PositionTicks, r.lastReady)
         IN  IF ~playerReady
             THEN Suspend(r, [t EXCEPT !.readyPosition = pos, !.waited = TRUE],
                          "waitBuffer")
             ELSE Suspend(requestReady(r, t, pos), t, "readyBuffer")
    ELSE AfterBuffer(r, t)

\* MessageHandlers.handleGroupJoined(data)
HandleGroupJoined(data) ==
    /\ nextTaskId <= MaxUpdates
    /\ nextTaskId' = nextTaskId + 1
    /\ currentGroup' = Some(GroupOfData(data))
    /\ UNCHANGED <<wsVars, spVars, pollVars, now, tsVars, chVars, currentGroupRef, isPlaying,
                   isProcessingSyncPlayUpdate, capturedProcessing, currentPlaylist,
                   currentPlayingItemIdRef, lastReadyPositionRef, playerReady, tasks,
                   readyRequests, unpauseRequests, played, finished>>

\* The effect of SyncPlayProvider that copies the group atom into currentGroupRef
GroupRefEffect ==
    /\ currentGroupRef # currentGroup
    /\ currentGroupRef' = currentGroup
    /\ UNCHANGED <<wsVars, spVars, frVars, uiVars, pollVars, now, tsVars, chVars, currentGroup, isPlaying,
                   isProcessingSyncPlayUpdate, capturedProcessing, currentPlaylist,
                   currentPlayingItemIdRef, lastReadyPositionRef, playerReady, tasks,
                   nextTaskId, readyRequests, unpauseRequests, played, finished>>

\* The player becomes able to play (ready = TRUE) or starts buffering (FALSE).
PlayerReadiness(ready) ==
    /\ playerReady # ready
    /\ playerReady' = ready
    /\ UNCHANGED <<wsVars, spVars, frVars, uiVars, pollVars, now, tsVars, chVars, currentGroup, currentGroupRef, isPlaying,
                   isProcessingSyncPlayUpdate, capturedProcessing, currentPlaylist,
                   currentPlayingItemIdRef, lastReadyPositionRef, tasks, nextTaskId,
                   readyRequests, unpauseRequests, played, finished>>

\* The task handleStateUpdate(message, data) starts as, for data = u
StateUpdateTask(u) ==
    [id |-> nextTaskId, kind |-> "StateUpdate", pc |-> "start", update |-> u,
     previousState |-> currentGroupRef[1].State,
     previousReason |-> currentGroupRef[1].StateReason,
     lastReadyBefore |-> lastReadyPositionRef,
     readyPosition |-> u.PositionTicks, waited |-> FALSE]

\* MessageHandlers.handleStateUpdate(message, data) for data = u, up to its first
\* await that suspends it
HandleStateUpdate(u) ==
    /\ nextTaskId <= MaxUpdates
    /\ nextTaskId' = nextTaskId + 1
    /\ IF currentGroupRef = Null
       THEN /\ finished' = finished \cup
                   {[id |-> nextTaskId, kind |-> "StateUpdate", pc |-> "noGroup",
                     update |-> u, previousState |-> "undefined",
                     previousReason |-> "undefined",
                     lastReadyBefore |-> lastReadyPositionRef,
                     readyPosition |-> u.PositionTicks, waited |-> FALSE]}
            /\ UNCHANGED <<currentGroup, isPlaying, tasks, readyRequests,
                           lastReadyPositionRef, unpauseRequests>>
       ELSE /\ currentGroup' = Some([currentGroupRef[1] EXCEPT
                                       !.State = u.State,
                                       !.StateReason = u.Reason,
                                       !.IsPaused = (u.State = "Paused"
                                                        \/ u.State = "Waiting"),
                                       !.PositionTicks = u.PositionTicks])
            /\ isPlaying' = IF u.State = "Playing" THEN TRUE
                            ELSE IF u.State = "Paused" \/ u.State = "Waiting" THEN FALSE
                            ELSE isPlaying
            /\ SetReconciler(AfterGroupChanged(ReconcilerState, StateUpdateTask(u)))
    /\ UNCHANGED <<wsVars, spVars, pollVars, now, tsVars, chVars, currentGroupRef, isProcessingSyncPlayUpdate,
                   capturedProcessing, currentPlaylist, currentPlayingItemIdRef,
                   playerReady, played>>

\* waitForPlayerReady() resolves for task t: the player has reported that it can
\* play, or (timedOut) the wait has reached its timeout.
WaitForPlayerReadyDone(t, timedOut) ==
    /\ t \in tasks
    /\ t.pc \in {"waitBuffer", "waitEnter"}
    /\ timedOut \/ playerReady
    /\ SetReconciler(Suspend(requestReady(ReconcilerState, t, t.readyPosition), t,
                             IF t.pc = "waitBuffer" THEN "readyBuffer"
                                                    ELSE "readyEnter"))
    /\ UNCHANGED <<wsVars, spVars, frVars, uiVars, pollVars, now, tsVars, chVars, currentGroup, currentGroupRef, isPlaying,
                   isProcessingSyncPlayUpdate, capturedProcessing, currentPlaylist,
                   currentPlayingItemIdRef, playerReady, nextTaskId, played>>

\* syncPlayReady settles for task t: requestReady returns, after clearing
\* lastReadyPositionRef when the call failed, and handleStateUpdate goes on.
SyncPlayReadyDone(t, ok) ==
    /\ t \in tasks
    /\ t.pc \in {"readyBuffer", "readyEnter", "readyChanged"}
    /\ LET r == IF ok THEN ReconcilerState
                ELSE [ReconcilerState EXCEPT !.lastReady = Null]
       IN  SetReconciler(IF t.pc = "readyBuffer" THEN AfterBuffer(r, t)
                         ELSE Return(r, t, "done"))
    /\ UNCHANGED <<wsVars, spVars, frVars, uiVars, pollVars, now, tsVars, chVars, currentGroup, currentGroupRef, isPlaying,
                   isProcessingSyncPlayUpdate, capturedProcessing, currentPlaylist,
                   currentPlayingItemIdRef, playerReady, nextTaskId, played>>

\* syncPlayUnpause settles for task t (requestUnpause catches a failure), and
\* handleStateUpdate goes on.
SyncPlayUnpauseDone(t) ==
    /\ t \in tasks
    /\ t.pc = "unpauseEnter"
    /\ SetReconciler(EnterWaitingReady(ReconcilerState, t))
    /\ UNCHANGED <<wsVars, spVars, frVars, uiVars, pollVars, now, tsVars, chVars, currentGroup, currentGroupRef, isPlaying,
                   isProcessingSyncPlayUpdate, capturedProcessing, currentPlaylist,
                   currentPlayingItemIdRef, playerReady, nextTaskId, played>>

\* The task handlePlayQueue(playlistData) starts as, for playlistData = q
PlayQueueTask(q) ==
    [id |-> nextTaskId, kind |-> "PlayQueue", pc |-> "start", update |-> q,
     previousItemId |-> currentPlayingItemIdRef,
     newItemId |-> NewPlaylistItemIdOf(q), itemIdAfter |-> Null]

\* MessageHandlers.handlePlayQueue(playlistData) for playlistData = q, up to its
\* await of fetchMediaDetails
HandlePlayQueue(q) ==
    /\ nextTaskId <= MaxUpdates
    /\ nextTaskId' = nextTaskId + 1
    /\ isProcessingSyncPlayUpdate' = TRUE
    /\ currentPlaylist' = IF q.Playlist # Null THEN q.Playlist[1] ELSE <<>>
    /\ isPlaying' = q.IsPlaying
    /\ IF q.Playlist # Null /\ Len(q.Playlist[1]) > 0
       THEN /\ currentPlayingItemIdRef' = NewPlaylistItemIdOf(q)
            /\ IF PlayingItemOf(q) # Null
               THEN /\ tasks' = tasks \cup {[PlayQueueTask(q) EXCEPT !.pc = "fetch"]}
                    /\ UNCHANGED finished
               ELSE /\ finished' = finished \cup
                          {[PlayQueueTask(q) EXCEPT !.pc = "noItem",
                                                    !.itemIdAfter = NewPlaylistItemIdOf(q)]}
                    /\ UNCHANGED tasks
       ELSE /\ currentPlayingItemIdRef' = Null
            /\ finished' = finished \cup {[PlayQueueTask(q) EXCEPT !.pc = "noPlaylist"]}
            /\ UNCHANGED tasks
    /\ UNCHANGED <<wsVars, spVars, pollVars, now, tsVars, chVars, currentGroup, currentGroupRef,
                   capturedProcessing, lastReadyPositionRef, playerReady, readyRequests,
                   unpauseRequests, played>>

\* const isAlreadyPlaying = this.state.getCurrentPlayingItemId() === newPlaylistItemId,
\* where current is currentPlayingItemIdRef.current when the line runs.
isAlreadyPlaying(current, newId) == current = newId

\* fetchMediaDetails settles for task t and handlePlayQueue goes on to its end.
FetchMediaDetailsDone(t, outcome) ==
    /\ t \in tasks
    /\ t.pc = "fetch"
    /\ tasks' = tasks \ {t}
    /\ IF outcome = "authError"
       THEN /\ finished' = finished \cup
                   {[t EXCEPT !.pc = "rejected", !.itemIdAfter = currentPlayingItemIdRef]}
            /\ UNCHANGED <<currentPlayingItemIdRef, played>>
       ELSE /\ currentPlayingItemIdRef' = t.newItemId
            /\ finished' = finished \cup
                   {[t EXCEPT !.pc = "done", !.itemIdAfter = t.newItemId]}
            /\ LET media == [id |-> IF outcome = "item"
                                    THEN PlayingItemOf(t.update)[1].ItemId
                                    ELSE "undefined",
                             resumePositionTicks |-> t.update.StartPositionTicks,
                             task |-> t.id]
               IN  IF t.update.Reason = "NewPlaylist"
                   THEN played' = Append(played, media)
                   ELSE IF t.update.Reason = "SetCurrentItem"
                             /\ ~isAlreadyPlaying(currentPlayingItemIdRef', t.newItemId)
                   THEN played' = Append(played, media)
                   ELSE UNCHANGED played
    /\ UNCHANGED <<wsVars, spVars, frVars, uiVars, pollVars, now, tsVars, chVars, currentGroup, currentGroupRef, isPlaying,
                   isProcessingSyncPlayUpdate, capturedProcessing, currentPlaylist,
                   lastReadyPositionRef, playerReady, nextTaskId, readyRequests,
                   unpauseRequests>>

(***************************************************************************)
(* lib/syncplay/websocket-manager (WebSocketManager), the sockets it       *)
(* creates with their events, and MessageHandlers.handleMessage.           *)
(***************************************************************************)
MessageIdsKept == 10

\* Timeouts, in seconds, the server advertises in ForceKeepAlive frames.
KeepAliveTimeouts == {3, 60}

\* The fields of WebSocketManager and the sockets, as one value.
WsState ==
    [ws |-> ws, isConnecting |-> isConnecting, keepAliveInterval |-> keepAliveInterval,
     sockets |-> sockets, intervals |-> intervals, lastSend |-> lastSend]

\* The values of w become the state.
SetWs(w) ==
    /\ ws' = w.ws
    /\ isConnecting' = w.isConnecting
    /\ keepAliveInterval' = w.keepAliveInterval
    /\ sockets' = w.sockets
    /\ intervals' = w.intervals
    /\ lastSend' = w.lastSend

\* this.ws?.readyState === WebSocket.OPEN
isConnectedIn(w) == w.ws # Null /\ w.sockets[w.ws[1]] = "OPEN"

\* WebSocketManager.isConnected
isConnected == isConnectedIn(WsState)

\* The sockets created by the manager that are open or connecting.
LiveSockets == { s \in 1..Len(sockets) : sockets[s] \in {"CONNECTING", "OPEN"} }

\* A mutant of clearKeepAlive: the timer is forgotten but not cleared.
clearKeepAliveForgets(w) == [w EXCEPT !.keepAliveInterval = Null]

\* WebSocketManager.clearKeepAlive()
clearKeepAlive(w) ==
    IF w.keepAliveInterval # Null
    THEN [w EXCEPT !.intervals = { t \in @ : t.id # w.keepAliveInterval[1] },
                   !.keepAliveInterval = Null]
    ELSE w

\* WebSocketManager.connect() with a well-formed server URL
wsConnect(w) ==
    IF isConnectedIn(w) \/ w.isConnecting THEN w
    ELSE [w EXCEPT !.isConnecting = TRUE,
                   !.sockets = Append(@, "CONNECTING"),
                   !.ws = Some(Len(w.sockets) + 1)]

\* WebSocketManager.disconnect()
wsDisconnect(w) ==
    LET c == clearKeepAlive(w)
        closed == IF isConnectedIn(c) THEN [c EXCEPT !.sockets[c.ws[1]] = "CLOSING"]
                  ELSE c
    IN  [closed EXCEPT !.ws = Null, !.isConnecting = FALSE]

\* WebSocketManager.send(messageType): the frame is transmitted on the socket held
\* if that socket is open, and on none otherwise.
wsSend(w, messageType) ==
    [w EXCEPT !.lastSend = Some([type |-> messageType,
                                 socket |-> IF isConnectedIn(w) THEN w.ws ELSE Null])]

\* The id setInterval returns: one no armed timer has.
FreshIntervalId(w) ==
    CHOOSE n \in 1..(Cardinality(w.intervals) + 1) : \A t \in w.intervals : t.id # n

\* WebSocketManager.scheduleKeepAlive(timeout); the period is in milliseconds
scheduleKeepAlive(w, timeout) ==
    LET c == clearKeepAlive(w)
        id == FreshIntervalId(c)
    IN  [c EXCEPT !.intervals = @ \cup {[id |-> id, period |-> (timeout * 1000) \div 2]},
                  !.keepAliveInterval = Some(id)]

\* Everything but the frame-id list and the frame log.
handlerVars == <<now, tsVars, chVars, mhVars, pollVars, wsVars, spVars>>

\* SyncPlayProvider.connect()
Connect ==
    /\ Len(wsConnect(WsState).sockets) <= MaxSockets
    /\ SetWs(IF ~isConnected THEN wsConnect(WsState) ELSE WsState)
    /\ UNCHANGED <<now, tsVars, chVars, mhVars, pollVars, spVars, frVars, uiVars>>

\* SyncPlayProvider.disconnect()
Disconnect ==
    /\ SetWs(wsDisconnect(WsState))
    /\ connectionStatus' = "disconnected"
    /\ UNCHANGED <<now, tsVars, chVars, mhVars, pollVars, isEnabled, error, isLoading,
                   frVars, uiVars>>

\* The open event of socket s: ws.onopen, then callbacks.onOpen
SocketOpen(s) ==
    /\ s \in 1..Len(sockets)
    /\ sockets[s] = "CONNECTING"
    /\ sockets' = [sockets EXCEPT ![s] = "OPEN"]
    /\ isConnecting' = FALSE
    /\ connectionStatus' = "connected"
    /\ error' = Null
    /\ UNCHANGED <<now, tsVars, chVars, mhVars, pollVars, ws, keepAliveInterval,
                   intervals, lastSend, isEnabled, isLoading, frVars, uiVars>>

\* The error event of socket s, whose connection fails: ws.onerror, then
\* callbacks.onError; the close event follows.
SocketError(s) ==
    /\ s \in 1..Len(sockets)
    /\ sockets[s] \in {"CONNECTING", "OPEN"}
    /\ sockets' = [sockets EXCEPT ![s] = "CLOSING"]
    /\ isConnecting' = FALSE
    /\ connectionStatus' = "disconnected"
    /\ error' = Some("WebSocket connection failed")
    /\ UNCHANGED <<now, tsVars, chVars, mhVars, pollVars, ws, keepAliveInterval,
                   intervals, lastSend, isEnabled, isLoading, frVars, uiVars>>

\* The close event of socket s: ws.onclose, then callbacks.onClose
SocketClose(s) ==
    /\ s \in 1..Len(sockets)
    /\ sockets[s] \in {"OPEN", "CLOSING"}
    /\ SetWs([clearKeepAlive([WsState EXCEPT !.sockets[s] = "CLOSED"])
                EXCEPT !.isConnecting = FALSE, !.ws = Null])
    /\ connectionStatus' = "disconnected"
    /\ UNCHANGED <<now, tsVars, chVars, mhVars, pollVars, isEnabled, error, isLoading,
                   frVars, uiVars>>

\* The setInterval callback of scheduleKeepAlive, for the armed timer t
KeepAliveTick(t) ==
    /\ t \in intervals
    /\ SetWs(IF isConnected THEN wsSend(WsState, "KeepAlive")
             ELSE clearKeepAlive(WsState))
    /\ UNCHANGED <<now, tsVars, chVars, mhVars, pollVars, spVars, frVars, uiVars>>

\* WebSocketManager.send(messageType) called by a user of the manager
Send(messageType) ==
    /\ SetWs(wsSend(WsState, messageType))
    /\ UNCHANGED <<now, tsVars, chVars, mhVars, pollVars, spVars, frVars, uiVars>>

\* handleMessage, the ForceKeepAlive branch: the reply and the rearmed timer
HandleForceKeepAlive(timeout) ==
    /\ SetWs(scheduleKeepAlive(wsSend(WsState, "KeepAlive"), timeout))
    /\ UNCHANGED <<now, tsVars, chVars, mhVars, pollVars, spVars>>

\* A mutant of includes: no id is ever found in the list.
includesNever(ids, id) == FALSE

\* messageIds.includes(messageId)
includes(ids, id) == \E k \in 1..Len(ids) : ids[k] = id

\* messageIds.push(messageId); if (messageIds.length > 10) messageIds.shift()
PushMessageId(ids, id) ==
    IF Len(ids) + 1 > MessageIdsKept THEN Tail(Append(ids, id)) ELSE Append(ids, id)

\* A frame as JSON.parse returns it.  MessageId is nullable; for a SyncPlayGroupUpdate
\* frame Type is Data.Type and Data is Data.Data.
Frame(messageId, messageType, updateType, data) ==
    [MessageId |-> messageId, MessageType |-> messageType, Type |-> updateType,
     Data |-> data]

\* The MessageIds inbound frames carry: none, one not seen before, the oldest and
\* the newest remembered, and the first id ever used (forgotten once ten newer ids
\* have arrived).
FrameIds ==
    LET seen == { messageIdsReceived[k] : k \in 1..Len(messageIdsReceived) }
        fresh == IF seen = {} THEN 1
                 ELSE 1 + CHOOSE m \in seen : \A x \in seen : x <= m
    IN  {Null, Some(1)}
            \cup (IF fresh <= MaxFrameId THEN {Some(fresh)} ELSE {})
            \cup (IF messageIdsReceived # <<>>
                  THEN {Some(messageIdsReceived[1]),
                        Some(messageIdsReceived[Len(messageIdsReceived)])}
                  ELSE {})

\* The keep-alive frames of the server that carry one of the MessageIds ids.
KeepAliveFramesOf(ids) ==
    { Frame(id, "KeepAlive", Null, Null) : id \in ids }
        \cup { Frame(id, "ForceKeepAlive", Null, n) : id \in ids, n \in KeepAliveTimeouts }

\* The keep-alive frames of SpecChannel: without an id, or with one of two ids.
ChannelFrames == KeepAliveFramesOf({Null, Some(1), Some(2)})

\* The keep-alive frames of SpecFrames.
DedupFrames == KeepAliveFramesOf(FrameIds)

(***************************************************************************)
(* SyncPlayProvider: createGroup, joinGroup and leaveGroup, each up to its *)
(* await of the server call and from there on; handleGroupDoesNotExist;    *)
(* and handleMessage with its routing.                                     *)
(***************************************************************************)
\* A mutant of groupInfoToSyncPlayGroup: only Paused counts as paused.
groupInfoPausedOnly(group) ==
    [State |-> group.State, StateReason |-> "undefined",
     PositionTicks |-> group.PositionTicks,
     IsPaused |-> (group.State = "Paused")]

\* groupInfoToSyncPlayGroup(group)
groupInfoToSyncPlayGroup(group) ==
    [State |-> group.State, StateReason |-> "undefined",
     PositionTicks |-> group.PositionTicks,
     IsPaused |-> (group.State = "Paused" \/ group.State = "Waiting")]

\* The task a provider operation is while it awaits its server call.
OperationTask(kind) ==
    [id |-> nextTaskId, kind |-> kind, pc |-> "await", ok |-> FALSE,
     groupBefore |-> currentGroup, enabledBefore |-> isEnabled,
     liveBefore |-> LiveSockets]

\* The provider operations that have returned.
OperationsEnded(kind) == { t \in finished : t.kind = kind }

\* MessageHandlers.handleGroupDoesNotExist()
HandleGroupDoesNotExist ==
    /\ currentGroup' = Null
    /\ isEnabled' = FALSE
    /\ SetWs(wsDisconnect(WsState))
    /\ connectionStatus' = "disconnected"
    /\ UNCHANGED <<now, tsVars, chVars, pollVars, currentGroupRef, isPlaying,
                   isProcessingSyncPlayUpdate, capturedProcessing, currentPlaylist,
                   currentPlayingItemIdRef, lastReadyPositionRef, playerReady, tasks,
                   nextTaskId, readyRequests, unpauseRequests, played, finished,
                   error, isLoading>>

\* SyncPlayProvider.createGroup(groupName) up to its await of createSyncPlayGroup
CreateGroup ==
    /\ nextTaskId <= MaxUpdates
    /\ nextTaskId' = nextTaskId + 1
    /\ isLoading' = TRUE
    /\ error' = Null
    /\ tasks' = tasks \cup {OperationTask("createGroup")}
    /\ UNCHANGED <<now, tsVars, chVars, pollVars, wsVars, frVars, uiVars, currentGroup,
                   currentGroupRef, isPlaying, isProcessingSyncPlayUpdate,
                   capturedProcessing, currentPlaylist, currentPlayingItemIdRef,
                   lastReadyPositionRef, playerReady, readyRequests, unpauseRequests,
                   played, finished, isEnabled, connectionStatus>>

\* createSyncPlayGroup settles for task t: with the group the server created (ok),
\* or with an error.
CreateGroupDone(t, ok, group) ==
    /\ t \in tasks
    /\ t.kind = "createGroup"
    /\ tasks' = tasks \ {t}
    /\ finished' = finished \cup {[t EXCEPT !.pc = "done", !.ok = ok]}
    /\ isLoading' = FALSE
    /\ IF ok
       THEN /\ Len(wsConnect(WsState).sockets) <= MaxSockets
            /\ currentGroup' = Some(groupInfoToSyncPlayGroup(group))
            /\ isEnabled' = TRUE
            /\ SetWs(IF ~isConnected THEN wsConnect(WsState) ELSE WsState)
            /\ UNCHANGED error
       ELSE /\ error' = Some("Failed to create group")
            /\ UNCHANGED <<currentGroup, isEnabled, wsVars>>
    /\ UNCHANGED <<now, tsVars, chVars, pollVars, frVars, uiVars, currentGroupRef, isPlaying,
                   isProcessingSyncPlayUpdate, capturedProcessing, currentPlaylist,
                   currentPlayingItemIdRef, lastReadyPositionRef, playerReady,
                   nextTaskId, readyRequests, unpauseRequests, played,
                   connectionStatus>>

\* SyncPlayProvider.joinGroup(groupId) up to its await of joinSyncPlayGroup
JoinGroup ==
    /\ nextTaskId <= MaxUpdates
    /\ Len(wsConnect(WsState).sockets) <= MaxSockets
    /\ nextTaskId' = nextTaskId + 1
    /\ isLoading' = TRUE
    /\ error' = Null
    /\ SetWs(IF ~isConnected THEN wsConnect(WsState) ELSE WsState)
    /\ tasks' = tasks \cup {OperationTask("joinGroup")}
    /\ UNCHANGED <<now, tsVars, chVars, pollVars, frVars, uiVars, currentGroup,
                   currentGroupRef, isPlaying, isProcessingSyncPlayUpdate,
                   capturedProcessing, currentPlaylist, currentPlayingItemIdRef,
                   lastReadyPositionRef, playerReady, readyRequests, unpauseRequests,
                   played, finished, isEnabled, connectionStatus>>

\* joinSyncPlayGroup settles for task t
JoinGroupDone(t, ok) ==
    /\ t \in tasks
    /\ t.kind = "joinGroup"
    /\ tasks' = tasks \ {t}
    /\ finished' = finished \cup {[t EXCEPT !.pc = "done", !.ok = ok]}
    /\ isLoading' = FALSE
    /\ IF ok
       THEN isEnabled' = TRUE /\ UNCHANGED error
       ELSE error' = Some("Failed to join group") /\ UNCHANGED isEnabled
    /\ UNCHANGED <<now, tsVars, chVars, pollVars, wsVars, frVars, uiVars, currentGroup,
                   currentGroupRef, isPlaying, isProcessingSyncPlayUpdate,
                   capturedProcessing, currentPlaylist, currentPlayingItemIdRef,
                   lastReadyPositionRef, playerReady, nextTaskId, readyRequests,
                   unpauseRequests, played, connectionStatus>>

\* SyncPlayProvider.leaveGroup() up to its await of leaveSyncPlayGroup
LeaveGroup ==
    /\ nextTaskId <= MaxUpdates
    /\ nextTaskId' = nextTaskId + 1
    /\ isLoading' = TRUE
    /\ error' = Null
    /\ tasks' = tasks \cup {OperationTask("leaveGroup")}
    /\ UNCHANGED <<now, tsVars, chVars, pollVars, wsVars, frVars, uiVars, currentGroup,
                   currentGroupRef, isPlaying, isProcessingSyncPlayUpdate,
                   capturedProcessing, currentPlaylist, currentPlayingItemIdRef,
                   lastReadyPositionRef, playerReady, readyRequests, unpauseRequests,
                   played, finished, isEnabled, connectionStatus>>

\* leaveSyncPlayGroup settles for task t
LeaveGroupDone(t, ok) ==
    /\ t \in tasks
    /\ t.kind = "leaveGroup"
    /\ tasks' = tasks \ {t}
    /\ finished' = finished \cup {[t EXCEPT !.pc = "done", !.ok = ok]}
    /\ isLoading' = FALSE
    /\ currentGroup' = Null
    /\ isEnabled' = FALSE
    /\ SetWs(wsDisconnect(WsState))
    /\ connectionStatus' = "disconnected"
    /\ IF ok
       THEN currentPlayingItemIdRef' = Null /\ UNCHANGED error
       ELSE error' = Some("Failed to leave group") /\ UNCHANGED currentPlayingItemIdRef
    /\ UNCHANGED <<now, tsVars, chVars, pollVars, frVars, uiVars, currentGroupRef, isPlaying,
                   isProcessingSyncPlayUpdate, capturedProcessing, currentPlaylist,
                   lastReadyPositionRef, playerReady, nextTaskId, readyRequests,
                   unpauseRequests, played>>

\* MessageHandlers.handleGroupUpdate(message)
HandleGroupUpdate(f) ==
    CASE f.Type = "GroupJoined" -> HandleGroupJoined(f.Data)
      [] f.Type = "StateUpdate" -> HandleStateUpdate(f.Data)
      [] f.Type = "PlayQueue" -> HandlePlayQueue(f.Data)
      [] f.Type = "GroupDoesNotExist" -> HandleGroupDoesNotExist
      [] OTHER -> UNCHANGED handlerVars

\* MessageHandlers.handleMessage(message) for message = f
HandleMessage(f) ==
    /\ IF f.MessageId # Null /\ includes(messageIdsReceived, f.MessageId[1])
       THEN /\ frameLog' = Some([frame |-> f, outcome |-> "dropped"])
            /\ UNCHANGED <<handlerVars, messageIdsReceived>>
       ELSE /\ messageIdsReceived' = IF f.MessageId # Null
                                     THEN PushMessageId(messageIdsReceived,
                                                        f.MessageId[1])
                                     ELSE messageIdsReceived
            /\ frameLog' = Some([frame |-> f, outcome |-> "routed"])
            /\ CASE f.MessageType = "SyncPlayGroupUpdate" -> HandleGroupUpdate(f)
                 [] f.MessageType = "SyncPlayCommand" -> HandleCommand(f.Data)
                 [] f.MessageType = "ForceKeepAlive" -> HandleForceKeepAlive(f.Data)
                 [] OTHER -> UNCHANGED handlerVars
    /\ UNCHANGED uiVars

\* The message event of the open socket s with the frame f: ws.onmessage, then
\* callbacks.onMessage
OnMessage(s, f) ==
    /\ s \in 1..Len(sockets)
    /\ sockets[s] = "OPEN"
    /\ HandleMessage(f)

(***************************************************************************)
(* The playback requests SyncPlayProvider hands to the local player        *)
(***************************************************************************)
\* A call of a request function as it is logged: whether it reached the server, and
\* the state it was made in.
LocalRequest(type, issued) ==
    [type |-> type, issued |-> issued, enabled |-> isEnabled,
     hasGroup |-> currentGroup # Null, processing |-> isProcessingSyncPlayUpdate]

\* What the request functions leave alone besides the calls of syncPlayUnpause.
notRequestVars ==
    <<now, tsVars, chVars, pollVars, wsVars, spVars, frVars, currentGroup,
      currentGroupRef, isPlaying, isProcessingSyncPlayUpdate, capturedProcessing,
      currentPlaylist, currentPlayingItemIdRef, lastReadyPositionRef, playerReady,
      tasks, nextTaskId, readyRequests, played, finished>>

\* SyncPlayProvider.requestPause(): a placeholder, nothing is sent.
RequestPause ==
    /\ Len(localRequests) < MaxLocalRequests
    /\ localRequests' = Append(localRequests, LocalRequest("pause", FALSE))
    /\ UNCHANGED <<notRequestVars, unpauseRequests>>

\* SyncPlayProvider.requestUnpause() called by the local player, up to its await
RequestUnpause ==
    /\ Len(localRequests) < MaxLocalRequests
    /\ localRequests' = Append(localRequests,
           LocalRequest("unpause", ~isProcessingSyncPlayUpdate))
    /\ unpauseRequests' = IF ~isProcessingSyncPlayUpdate THEN unpauseRequests + 1
                          ELSE unpauseRequests
    /\ UNCHANGED notRequestVars

\* SyncPlayProvider.requestStop(), up to its await of syncPlayStop
RequestStop ==
    /\ Len(localRequests) < MaxLocalRequests
    /\ localRequests' = Append(localRequests, LocalRequest("stop", TRUE))
    /\ UNCHANGED <<notRequestVars, unpauseRequests>>

\* SyncPlayProvider.requestSeek(positionTicks): a placeholder, nothing is sent.
RequestSeek ==
    /\ Len(localRequests) < MaxLocalRequests
    /\ localRequests' = Append(localRequests, LocalRequest("seek", FALSE))
    /\ UNCHANGED <<notRequestVars, unpauseRequests>>

(***************************************************************************)
(* Initial state: the objects as constructed                               *)
(***************************************************************************)
Init ==
    /\ now = StartTime
    /\ measurement = Null
    /\ measurements = <<>>
    /\ inserted = <<>>
    /\ roundTrip = Null
    /\ lastCommand = Null
    /\ scheduledTimeouts = {}
    /\ executedCommands = {}
    /\ timers = {}
    /\ nextTimerId = 1
    /\ dispatched = <<>>
    /\ warnings = <<>>
    /\ handled = <<>>
    /\ awaitingSync = <<>>
    /\ currentGroup = Null
    /\ currentGroupRef = Null
    /\ isPlaying = FALSE
    /\ isProcessingSyncPlayUpdate = FALSE
    /\ capturedProcessing = FALSE
    /\ currentPlaylist = <<>>
    /\ currentPlayingItemIdRef = Null
    /\ lastReadyPositionRef = Null
    /\ playerReady = FALSE
    /\ tasks = {}
    /\ nextTaskId = 1
    /\ readyRequests = <<>>
    /\ unpauseRequests = 0
    /\ played = <<>>
    /\ finished = {}
    /\ pollingInterval = PollingIntervalGreedy
    /\ pings = 0
    /\ pingStop = TRUE
    /\ poller = Null
    /\ inFlight = 0
    /\ samples = 0
    /\ ws = Null
    /\ isConnecting = FALSE
    /\ keepAliveInterval = Null
    /\ sockets = <<>>
    /\ intervals = {}
    /\ lastSend = Null
    /\ isEnabled = FALSE
    /\ connectionStatus = "disconnected"
    /\ error = Null
    /\ isLoading = FALSE
    /\ messageIdsReceived = <<>>
    /\ frameLog = Null
    /\ localRequests = <<>>

(***************************************************************************)
(* SpecEstimate: the clock estimate under arbitrary insertions             *)
(***************************************************************************)
NextEstimate ==
    \/ \E p \in PingShapes : UpdateTimeOffset(MeasurementOf(p))
    \/ ResetMeasurements
    \/ \E t \in LocalInstants : ConvertRoundTrip(t)

SpecEstimate == Init /\ [][NextEstimate]_vars

\* C1: after any sequence of updateTimeOffset calls the collection holds at most 8
\* samples, exactly the most recently inserted ones, and the active measurement is
\* one of them whose delay is the least among them.
C1_ActiveIsMinDelayOfRecent ==
    /\ Len(measurements) <= NumberOfTrackedMeasurements
    /\ measurements = LastN(inserted, NumberOfTrackedMeasurements)
    /\ (inserted = <<>>) <=> (measurement = Null)
    /\ measurement # Null =>
          /\ \E i \in 1..Len(measurements) : measurements[i] = measurement[1]
          /\ \A j \in 1..Len(measurements) :
                getDelay(measurement[1]) <= getDelay(measurements[j])

\* C1 witness: a ninth insertion has evicted the oldest sample, which had a smaller
\* delay than every retained one, and the active measurement is not the oldest kept.
C1_Witness ==
    /\ Len(inserted) > NumberOfTrackedMeasurements
    /\ Len(measurements) = NumberOfTrackedMeasurements
    /\ getDelay(inserted[1]) < getDelay(measurement[1])
    /\ getDelay(measurement[1]) < getDelay(measurements[1])

\* C2: for every instant t and every offset the estimator can hold,
\* remoteDateToLocal(localDateToRemote(t)) is exactly t.
C2_RoundTripIdentity ==
    roundTrip # Null => roundTrip[1].back = roundTrip[1].local

(***************************************************************************)
(* SpecPoller: the poller of TimeSync, its ping requests and the clock     *)
(***************************************************************************)
\* The instants at which SpecPoller reads the clock: one polling interval after the
\* start, more than StaleAge after it, and one low-profile interval after that.
PollerInstants == { StartTime + 1000, StartTime + 35000, StartTime + 95000 }

\* The ping exchanges of SpecPoller: delays of 2 ms and 3 ms.
PollerPingShapes == { <<1, 1, 0>>, <<2, 1, 0>> }

NextPoller ==
    \/ StartPing
    \/ StopPing
    \/ ForceUpdate
    \/ PollerFire
    \/ \E p \in PollerPingShapes : PingResponse(p)
    \/ PingFailure
    \/ \E t \in PollerInstants : Tick(t)

SpecPoller == Init /\ [][NextPoller]_vars

\* C21 as stated: every wait armed before a ping is 1 s while fewer than 3 samples
\* have been recorded since the start or the last forceUpdate, and 60 s once 3 have.
C21_AdaptiveCadence ==
    poller # Null =>
        poller[1].interval = IF poller[1].samples < GreedyPingCount
                             THEN PollingIntervalGreedy
                             ELSE PollingIntervalLowProfile

\* C21 amended: every wait armed before a ping is 1 s while at most 3 samples have
\* been recorded since construction or the last forceUpdate, and 60 s once a fourth
\* has; stopPing followed by startPing restarts neither the count nor the interval.
C21_AdaptiveCadenceFourth ==
    /\ poller # Null =>
          /\ poller[1].interval = IF poller[1].samples <= GreedyPingCount
                                  THEN PollingIntervalGreedy
                                  ELSE PollingIntervalLowProfile
          /\ poller[1].due <= now + poller[1].interval
    /\ pings = IF samples <= GreedyPingCount THEN samples ELSE GreedyPingCount
    /\ pollingInterval = IF samples <= GreedyPingCount
                         THEN PollingIntervalGreedy ELSE PollingIntervalLowProfile

\* C21 witness: four samples have arrived since construction, the polling interval
\* is 60 s, and the wait armed after the fourth sample is 60 s.
C21_Witness ==
    /\ samples = GreedyPingCount + 1
    /\ Len(inserted) = samples
    /\ pollingInterval = PollingIntervalLowProfile
    /\ poller # Null
    /\ poller[1].interval = PollingIntervalLowProfile
    /\ poller[1].samples = GreedyPingCount + 1
    /\ ~pingStop

\* C22: when a ping request fails, the sample collection, the active measurement,
\* the count of pings and the polling interval are unchanged, and unless polling is
\* stopped a timeout for the next ping is armed when the failure has been handled.
C22_FailedPingSkipped ==
    [][PingFailure
          => /\ UNCHANGED <<measurements, measurement, inserted, pings, samples,
                            pollingInterval, pingStop>>
             /\ ~pingStop => poller' # Null]_vars

\* C22 witness: with an estimate of two samples held and no timeout armed, the one
\* request in flight has failed, and the timeout for the next ping is armed.
C22_Witness ==
    /\ Len(measurements) = 2
    /\ measurement # Null
    /\ pings = 2
    /\ inFlight = 0
    /\ ~pingStop
    /\ poller # Null
    /\ poller[1].due = now + PollingIntervalGreedy
    /\ poller[1].samples = 2
    /\ measurements[2].timestamp < now

\* C23: isStale() is true exactly when no retained sample was taken within the last
\* 30 seconds, also when there is none; it is false whenever the most recently
\* inserted sample is younger than 30 s.
C23_StaleExactly ==
    isStale <=> (\A i \in 1..Len(measurements) :
                    now - measurements[i].timestamp > StaleAge)

(***************************************************************************)
(* SpecCommand: inbound SyncPlayCommand frames, the clock and the timers   *)
(***************************************************************************)
NextCommand ==
    \/ \E c \in Commands : HandleCommand(c) /\ UNCHANGED <<frVars, uiVars>>
    \/ \E t \in timers : TimerFire(t)
    \/ \E p \in SkewedPingShapes : OnPingResponseCallback(p)
    \/ \E t \in Instants : Tick(t)

SpecCommand == Init /\ [][NextCommand]_vars

\* The dispatchCommand calls made for handleCommand call number i.
DispatchesOf(i) == SelectSeq(dispatched, LAMBDA e : e.call = i)

\* The armed timers of handleCommand call number i.
TimersOf(i) == { t \in timers : t.call = i }

\* The warnings emitted for handleCommand call number i.
WarningsOf(i) == SelectSeq(warnings, LAMBDA e : e.call = i)

\* C3: a handleCommand call whose command equals the last stored command in
\* (When, PositionTicks, Command, PlaylistItemId) is classified a duplicate, arms no
\* timer, leaves the stored command alone and dispatches nothing.
C3_DuplicateIsDropped ==
    [][(Len(handled') = Len(handled) + 1 /\ handled'[Len(handled')].wasLast)
          => /\ handled'[Len(handled')].outcome = "duplicate"
             /\ UNCHANGED <<lastCommand, scheduledTimeouts, executedCommands, timers,
                            nextTimerId, dispatched, warnings, awaitingSync>>]_vars

\* C3 witness: the same command arrived twice in a row while its timer was armed,
\* and the second arrival was dropped with the timer still armed.
C3_Witness ==
    \E i \in 2..Len(handled) :
        /\ handled[i].outcome = "duplicate"
        /\ handled[i - 1].command = handled[i].command
        /\ TimersOf(i - 1) # {}
        /\ dispatched = <<>>

\* C4: a scheduleCommand call that computes a negative delay dispatches the command
\* within the call and arms no timer, also when the delay is below -5000 ms.
C4_NegativeDelayImmediate ==
    \A i \in 1..Len(handled) :
        (handled[i].delay # Null /\ handled[i].delay[1] < 0)
            => /\ handled[i].outcome = "immediate"
               /\ TimersOf(i) = {}
               /\ Len(DispatchesOf(i)) = 1
               /\ DispatchesOf(i)[1].type = CommandType(handled[i].command)
               /\ DispatchesOf(i)[1].positionTicks = handled[i].command.PositionTicks
               /\ CommandKey(handled[i].command) \in executedCommands

\* C4 witness: a command was dispatched at once with a delay below -5000 ms.
C4_Witness ==
    \E i \in 1..Len(handled) :
        /\ handled[i].delay # Null
        /\ handled[i].delay[1] < -maxAllowedDelay
        /\ handled[i].outcome = "immediate"
        /\ Len(DispatchesOf(i)) = 1

\* C5: a scheduleCommand call that computes a delay above 5000 ms dispatches the
\* command at once, arms no timer with that delay and emits exactly one warning.
C5_AnomalousDelayImmediate ==
    \A i \in 1..Len(handled) :
        (handled[i].delay # Null /\ handled[i].delay[1] > maxAllowedDelay)
            => /\ handled[i].outcome = "immediate"
               /\ TimersOf(i) = {}
               /\ Len(DispatchesOf(i)) = 1
               /\ Len(WarningsOf(i)) = 1

\* C6: a scheduleCommand call that computes a delay d with 0 < d <= 5000 arms one
\* one-shot timer for d; while no further command has arrived the command is not
\* dispatched before that timer fires, and once it has fired (d ms or more after it
\* was armed) the command has been dispatched exactly once with its kind and position.
C6_InBoundDelayTimer ==
    \A i \in 1..Len(handled) :
        (/\ handled[i].delay # Null
         /\ handled[i].delay[1] > 0
         /\ handled[i].delay[1] <= maxAllowedDelay)
            => /\ handled[i].outcome = "timer"
               /\ Len(WarningsOf(i)) = 0
               /\ \A t \in TimersOf(i) :
                     /\ t.delay = handled[i].delay[1]
                     /\ t.due = handled[i].armedAt[1] + handled[i].delay[1]
                     /\ t.type = CommandType(handled[i].command)
                     /\ t.positionTicks = handled[i].command.PositionTicks
               /\ Cardinality(TimersOf(i)) <= 1
               /\ TimersOf(i) # {} => DispatchesOf(i) = <<>>
               /\ i = Len(handled) =>
                     /\ Cardinality(TimersOf(i)) + Len(DispatchesOf(i)) = 1
                     /\ \A k \in 1..Len(DispatchesOf(i)) :
                           /\ DispatchesOf(i)[k].type = CommandType(handled[i].command)
                           /\ DispatchesOf(i)[k].positionTicks =
                                  handled[i].command.PositionTicks
                           /\ now >= handled[i].armedAt[1] + handled[i].delay[1]

\* C6 witness: a Pause due in 2000 ms was armed, its timer has fired and the pause
\* at 500000000 ticks has been dispatched.
C6_Witness ==
    \E i \in 1..Len(handled) :
        /\ i = Len(handled)
        /\ handled[i].delay = Some(2000)
        /\ TimersOf(i) = {}
        /\ DispatchesOf(i) = <<[type |-> "pause", positionTicks |-> 500000000, call |-> i]>>

\* C34: handling a command does not cancel the armed timer of a command with another
\* key, whether the new command is scheduled or dropped as already executed: every
\* timer armed for another key is still armed after the step.
C34_ScheduledCommandKept ==
    [][\A c \in Commands :
          (HandleCommand(c) /\ UNCHANGED <<frVars, uiVars>>)
              => \A t \in timers : t.key # CommandKey(c) => t \in timers']_vars

\* C38: a command that differs from every command handled before it in at least one
\* of When, PositionTicks, Command and PlaylistItemId is never suppressed: it is not
\* dropped as a duplicate nor as already executed.
C38_DistinctCommandNotSuppressed ==
    \A i \in 1..Len(handled) :
        (\A j \in 1..(i - 1) : handled[j].command # handled[i].command)
            => handled[i].outcome \notin {"duplicate", "executed"}

\* C31: the set of remembered executed command keys stays under a fixed bound however
\* many commands of distinct keys are dispatched; here, after MaxCommands commands it
\* holds fewer than MaxCommands keys (clearExecutedCommands is never called and
\* nothing else removes a key).
C31_ExecutedMemoryBounded ==
    Cardinality(executedCommands) < MaxCommands

(***************************************************************************)
(* SpecReconciler: inbound SyncPlayGroupUpdate frames, the player and the  *)
(* network calls the handlers await                                        *)
(***************************************************************************)
NextReconciler ==
    \/ \E data \in GroupInfos : HandleGroupJoined(data) /\ UNCHANGED <<frVars, uiVars>>
    \/ GroupRefEffect
    \/ \E ready \in BOOLEAN : PlayerReadiness(ready)
    \/ \E u \in StateUpdates : HandleStateUpdate(u) /\ UNCHANGED <<frVars, uiVars>>
    \/ \E t \in tasks, timedOut \in BOOLEAN : WaitForPlayerReadyDone(t, timedOut)
    \/ \E t \in tasks, ok \in BOOLEAN : SyncPlayReadyDone(t, ok)
    \/ \E t \in tasks : SyncPlayUnpauseDone(t)

SpecReconciler == Init /\ [][NextReconciler]_vars

\* The ready(true, ...) requests task number id has made.
ReadyOf(id) == SelectSeq(readyRequests, LAMBDA e : e.task = id /\ e.isReady)

\* The handleStateUpdate calls, running or ended.
StateUpdateCalls == { t \in tasks \cup finished : t.kind = "StateUpdate" }

\* C7: for a StateUpdate{Waiting, Buffer, P} that arrives while the player is not
\* ready, whatever the group state before, no ready request is made before the wait
\* for the player ends, and exactly one ready(true, P) is made for it after.
C7_OneReadyAfterWait ==
    \A t \in StateUpdateCalls :
        (t.update.State = "Waiting" /\ t.update.Reason = "Buffer" /\ t.waited)
            => /\ t.pc = "waitBuffer" => ReadyOf(t.id) = <<>>
               /\ t.pc # "waitBuffer" => Len(ReadyOf(t.id)) = 1
               /\ \A k \in 1..Len(ReadyOf(t.id)) :
                     ReadyOf(t.id)[k].positionTicks = t.update.PositionTicks

\* C8: a StateUpdate makes at most one ready(true) request, and none when it keeps
\* the group in Waiting with the same reason at a position within 0.1 s of the
\* position acknowledged last.
C8_ReadyAtMostOnce ==
    \A t \in StateUpdateCalls :
        /\ Len(ReadyOf(t.id)) <= 1
        /\ (/\ t.update.State = "Waiting"
            /\ t.previousState = "Waiting"
            /\ t.previousReason = t.update.Reason
            /\ t.lastReadyBefore # Null
            /\ Abs(t.update.PositionTicks - t.lastReadyBefore[1])
                  <= ReadyPositionThreshold)
              => ReadyOf(t.id) = <<>>

\* C28: whenever StateUpdate handling sends ready(true, ...), the player is ready at
\* that moment or the send follows the end of the handler's wait for the player.
C28_NoOptimisticReady ==
    [][Len(readyRequests') > Len(readyRequests)
          => \/ playerReady
             \/ \E t \in tasks, timedOut \in BOOLEAN : WaitForPlayerReadyDone(t, timedOut)]_vars

\* C29: handling a StateUpdate with State Waiting and Reason Ready makes no unpause
\* request and at most one ready request.
C29_WaitingReadyOnlyWaits ==
    [][\A u \in StateUpdates :
          (u.State = "Waiting" /\ u.Reason = "Ready" /\ currentGroupRef # Null
              /\ HandleStateUpdate(u) /\ UNCHANGED <<frVars, uiVars>>)
              => /\ unpauseRequests' = unpauseRequests
                 /\ Len(readyRequests') <= Len(readyRequests) + 1]_vars

(***************************************************************************)
(* SpecPlaying: the StateUpdate payloads of SpecReconciler and one that    *)
(* reports the group Idle                                                  *)
(***************************************************************************)
\* The StateUpdate the server sends when the group has stopped.
IdleStateUpdates == { [State |-> "Idle", Reason |-> "Stop", PositionTicks |-> 0] }

NextPlaying ==
    \/ NextReconciler
    \/ \E u \in IdleStateUpdates : HandleStateUpdate(u) /\ UNCHANGED <<frVars, uiVars>>

SpecPlaying == Init /\ [][NextPlaying]_vars

\* C39: after a StateUpdate has been applied to the group the handler reads, isPlaying
\* is true exactly when the new State is Playing (false for Paused, Waiting and Idle);
\* a StateUpdate received while there is no group changes neither the group nor
\* isPlaying and sends no request.
C39_PlayingTracksState ==
    [][\A u \in StateUpdates \cup IdleStateUpdates :
          (HandleStateUpdate(u) /\ UNCHANGED <<frVars, uiVars>>)
              => /\ currentGroupRef # Null => (isPlaying' <=> u.State = "Playing")
                 /\ (currentGroupRef = Null /\ currentGroup = Null)
                       => UNCHANGED <<currentGroup, isPlaying, readyRequests,
                                      unpauseRequests, tasks>>]_vars

(***************************************************************************)
(* SpecPlayQueue: inbound PlayQueue updates and the media-details fetch    *)
(***************************************************************************)
NextPlayQueue ==
    \/ \E q \in PlayQueues : HandlePlayQueue(q) /\ UNCHANGED <<frVars, uiVars>>
    \/ \E t \in tasks, outcome \in FetchOutcomes : FetchMediaDetailsDone(t, outcome)

SpecPlayQueue == Init /\ [][NextPlayQueue]_vars

\* The playMedia calls task number id has made.
PlayedOf(id) == SelectSeq(played, LAMBDA e : e.task = id)

\* The handlePlayQueue calls that have ended.
PlayQueueEnded == { t \in finished : t.kind = "PlayQueue" }

\* C9: a PlayQueue update with Reason SetCurrentItem and a non-empty playlist calls
\* playMedia if and only if the new current PlaylistItemId differs from the id that
\* was current before the update was handled.
C9_SetCurrentItemGuard ==
    \A t \in PlayQueueEnded :
        (t.update.Reason = "SetCurrentItem" /\ t.pc = "done")
            => (PlayedOf(t.id) # <<>>) <=> (t.newItemId # t.previousItemId)

\* C10: a PlayQueue update with Reason NewPlaylist whose playlist is non-empty and
\* whose PlayingItemIndex selects an item ends with playMedia called for that item,
\* whatever item was current; with an empty or missing playlist it ends with no
\* playMedia call and a null current playlist-item id.
C10_NewPlaylistStartsPlayback ==
    \A t \in PlayQueueEnded :
        t.update.Reason = "NewPlaylist"
            => /\ PlayingItemOf(t.update) # Null =>
                     /\ Len(PlayedOf(t.id)) = 1
                     /\ PlayedOf(t.id)[1].id = PlayingItemOf(t.update)[1].ItemId
               /\ (t.update.Playlist = Null \/ t.update.Playlist = Some(<<>>)) =>
                     /\ PlayedOf(t.id) = <<>>
                     /\ t.pc = "noPlaylist"
                     /\ t.itemIdAfter = Null

\* C32: the guard set by handlePlayQueue is cleared again by the time the update has
\* been applied, also when fetchMediaDetails fails: while no handlePlayQueue call is
\* in progress the guard is not set.
C32_GuardReleased ==
    (\A t \in tasks : t.kind # "PlayQueue") => ~isProcessingSyncPlayUpdate

\* C33: the side effects of inbound frames follow the order of arrival, also across
\* the await of fetchMediaDetails: the playMedia calls are in the order in which their
\* PlayQueue updates arrived, so the media started last is that of the later frame.
C33_ArrivalOrderApplication ==
    \A i, j \in 1..Len(played) : i < j => played[i].task < played[j].task

(***************************************************************************)
(* SpecGroup: everything that writes the current group                     *)
(***************************************************************************)
\* The StateUpdate payloads of SpecGroup: those without the Buffer and Seek handshakes.
GroupStateUpdates == { u \in StateUpdates : u.Reason # "Buffer" /\ u.Reason # "Seek" }

NextGroup ==
    \/ \E data \in GroupInfos : HandleGroupJoined(data) /\ UNCHANGED <<frVars, uiVars>>
    \/ \E u \in GroupStateUpdates : HandleStateUpdate(u) /\ UNCHANGED <<frVars, uiVars>>
    \/ GroupRefEffect
    \/ CreateGroup
    \/ \E t \in tasks, ok \in BOOLEAN, group \in GroupInfos : CreateGroupDone(t, ok, group)
    \/ HandleGroupDoesNotExist /\ UNCHANGED <<frVars, uiVars>>

SpecGroup == Init /\ [][NextGroup]_vars

\* C11: whenever there is a current group, its IsPaused flag is true exactly when its
\* State is Paused or Waiting; a group joined in State Idle is not paused.
C11_IsPausedDerivation ==
    currentGroup # Null
        => (currentGroup[1].IsPaused
               <=> currentGroup[1].State \in {"Paused", "Waiting"})

\* C11 witness: a group created in State Idle (not paused) was put into Waiting by a
\* StateUpdate (paused), while the ref still holds the Idle group.
C11_Witness ==
    /\ currentGroup # Null
    /\ currentGroup[1].State = "Waiting"
    /\ currentGroup[1].IsPaused
    /\ currentGroupRef # Null
    /\ currentGroupRef[1].State = "Idle"
    /\ ~currentGroupRef[1].IsPaused
    /\ \E t \in OperationsEnded("createGroup") : t.ok

(***************************************************************************)
(* SpecChannel: the channel manager, its sockets and the keep-alive frames *)
(***************************************************************************)
NextChannel ==
    \/ Connect
    \/ Disconnect
    \/ \E s \in 1..Len(sockets) : SocketOpen(s)
    \/ \E s \in 1..Len(sockets) : SocketError(s)
    \/ \E s \in 1..Len(sockets) : SocketClose(s)
    \/ \E s \in 1..Len(sockets), f \in ChannelFrames : OnMessage(s, f)
    \/ \E t \in intervals : KeepAliveTick(t)
    \/ Send("KeepAlive")

SpecChannel == Init /\ [][NextChannel]_vars

(***************************************************************************)
(* SpecFrames: one connection and the frames arriving on it, with ids      *)
(***************************************************************************)
NextFrames ==
    \/ Connect
    \/ \E s \in 1..Len(sockets) : SocketOpen(s)
    \/ \E s \in 1..Len(sockets), f \in DedupFrames : OnMessage(s, f)
    \/ \E t \in intervals : KeepAliveTick(t)

SpecFrames == Init /\ [][NextFrames]_vars

\* The ForceKeepAlive frames among the keep-alive frames.
ForceKeepAliveFrames == { f \in ChannelFrames : f.MessageType = "ForceKeepAlive" }

\* The id of frame f is in the remembered list.
Remembered(f) ==
    /\ f.MessageId # Null
    /\ \E k \in 1..Len(messageIdsReceived) : messageIdsReceived[k] = f.MessageId[1]

\* C17: across any sequence of connect and disconnect calls and socket events, at
\* most one socket created by the manager is open or connecting at a time (a
\* connect() call while the channel is open or connecting creates no socket).
C17_AtMostOneLiveSocket == Cardinality(LiveSockets) <= 1

\* C18: after the close event of a socket or a disconnect() call no keep-alive timer
\* is armed, the handle is null and isConnected is false; and a send() call made
\* while the manager holds no open socket transmits nothing and changes nothing else.
C18_CloseDisconnectPostcondition ==
    [][/\ (Disconnect \/ \E s \in 1..Len(sockets) : SocketClose(s))
            => /\ intervals' = {}
               /\ keepAliveInterval' = Null
               /\ ws' = Null
               /\ ~isConnected'
       /\ ((ws = Null \/ sockets[ws[1]] # "OPEN") /\ Send("KeepAlive"))
            => /\ lastSend' = Some([type |-> "KeepAlive", socket |-> Null])
               /\ UNCHANGED <<ws, isConnecting, keepAliveInterval, sockets, intervals>>]_vars

\* C18 witness: a keep-alive timer had been armed on an open connection, the
\* connection is gone with no timer left, and a send() since then transmitted nothing.
C18_Witness ==
    /\ ws = Null
    /\ intervals = {}
    /\ \E s \in 1..Len(sockets) : sockets[s] \in {"CLOSING", "CLOSED"}
    /\ LiveSockets = {}
    /\ frameLog # Null
    /\ frameLog[1].frame.MessageType = "ForceKeepAlive"
    /\ frameLog[1].outcome = "routed"
    /\ lastSend = Some([type |-> "KeepAlive", socket |-> Null])

\* C35: the close event of a socket that is no longer the one the manager holds (a
\* newer socket has been created by connect() since) leaves the handle of the newer
\* socket, its keep-alive timer and the connecting flag as they are, so that send()
\* still transmits once the newer socket is open.
C35_StaleCloseHarmless ==
    [][\A s \in 1..Len(sockets) :
          (ws # Null /\ ws # Some(s) /\ SocketClose(s))
              => /\ ws' = ws
                 /\ isConnecting' = isConnecting
                 /\ keepAliveInterval' = keepAliveInterval
                 /\ intervals' = intervals]_vars

\* C36: after disconnect() and until the next connect(), the sockets the manager has
\* let go of deliver no onOpen notification and no frame.  The manager holds no socket
\* and no close event has occurred yet, so it was disconnect() that dropped the handle.
C36_DisconnectSilences ==
    [][(ws = Null /\ \A o \in 1..Len(sockets) : sockets[o] # "CLOSED")
          => \A s \in 1..Len(sockets) :
                /\ ~SocketOpen(s)
                /\ \A f \in ChannelFrames : ~OnMessage(s, f)]_vars

\* C19: every ForceKeepAlive(n) frame that is handled (not dropped as a repeat of a
\* remembered id) has one KeepAlive reply transmitted and the keep-alive timer rearmed
\* with period n/2 seconds in place of any previous timer; at most one keep-alive
\* timer is armed at any moment; a tick transmits one KeepAlive frame if the socket
\* is open and nothing otherwise.
C19_KeepAliveRearm ==
    /\ [](Cardinality(intervals) <= 1)
    /\ [][/\ \A s \in 1..Len(sockets), f \in ForceKeepAliveFrames :
                (~Remembered(f) /\ OnMessage(s, f))
                    => /\ lastSend' # Null
                       /\ lastSend'[1].type = "KeepAlive"
                       /\ lastSend'[1].socket # Null
                       /\ \E t \in intervals' :
                             /\ intervals' = {t}
                             /\ t.period = f.Data * 500
                             /\ keepAliveInterval' = Some(t.id)
          /\ \A t \in intervals :
                (KeepAliveTick(t) /\ lastSend' # lastSend)
                    => (ws # Null /\ sockets[ws[1]] = "OPEN" /\ lastSend'[1].socket = ws)]_vars

\* C20: the remembered id list never holds more than 10 ids; a frame whose MessageId
\* is in the list is dropped, no handler runs and nothing but the frame log changes;
\* a frame whose MessageId is not in the list has its id appended, the oldest id
\* leaving once there are more than 10, and goes to its handler (a ForceKeepAlive
\* frame rearms the keep-alive timer).
C20_FrameIdDeduplication ==
    /\ [](Len(messageIdsReceived) <= MessageIdsKept)
    /\ [][\A s \in 1..Len(sockets), f \in DedupFrames :
             (f.MessageId # Null /\ OnMessage(s, f))
                => IF Remembered(f)
                   THEN /\ UNCHANGED <<handlerVars, messageIdsReceived>>
                        /\ frameLog' = Some([frame |-> f, outcome |-> "dropped"])
                   ELSE /\ messageIdsReceived' =
                             LastN(Append(messageIdsReceived, f.MessageId[1]),
                                   MessageIdsKept)
                        /\ frameLog' = Some([frame |-> f, outcome |-> "routed"])
                        /\ f.MessageType = "ForceKeepAlive"
                             => \E t \in intervals' : t.period = f.Data * 500]_vars

\* C20 witness: ten newer ids have pushed the first id out of the full list, and the
\* last frame repeated a remembered id and was dropped.
C20_Witness ==
    /\ Len(messageIdsReceived) = MessageIdsKept
    /\ messageIdsReceived[1] = 2
    /\ frameLog # Null
    /\ frameLog[1].outcome = "dropped"
    /\ frameLog[1].frame.MessageId = Some(11)

(***************************************************************************)
(* SpecSession: createGroup, joinGroup and leaveGroup, the sockets they    *)
(* open and close, and the frames that arrive on the open sockets          *)
(***************************************************************************)
\* The frames of SpecSession; none carries a MessageId.
SessionFrames ==
    { Frame(Null, "SyncPlayGroupUpdate", "GroupJoined", data) : data \in GroupInfos }
        \cup { Frame(Null, "SyncPlayGroupUpdate", "StateUpdate", u) :
                 u \in { v \in StateUpdates :
                            v.State # "Waiting" \/ v.Reason = "Ready" } }
        \cup { Frame(Null, "SyncPlayGroupUpdate", "GroupDoesNotExist", Null) }

NextSession ==
    \/ CreateGroup
    \/ \E t \in tasks, ok \in BOOLEAN, group \in GroupInfos : CreateGroupDone(t, ok, group)
    \/ JoinGroup
    \/ \E t \in tasks, ok \in BOOLEAN : JoinGroupDone(t, ok)
    \/ LeaveGroup
    \/ \E t \in tasks, ok \in BOOLEAN : LeaveGroupDone(t, ok)
    \/ \E s \in 1..Len(sockets) : SocketOpen(s)
    \/ \E s \in 1..Len(sockets) : SocketClose(s)
    \/ \E s \in 1..Len(sockets), f \in SessionFrames : OnMessage(s, f)
    \/ GroupRefEffect
    \/ \E p \in SkewedPingShapes : OnPingResponseCallback(p)

SpecSession == Init /\ [][NextSession]_vars

\* The GroupDoesNotExist frame.
GroupDoesNotExistFrame == Frame(Null, "SyncPlayGroupUpdate", "GroupDoesNotExist", Null)

\* C12: when a GroupDoesNotExist update has been handled, whatever the state before,
\* the current group is null, synchronization is disabled and the channel is
\* disconnected: status 'disconnected', no socket held, none open or connecting.
C12_GroupDoesNotExistTeardown ==
    [][\A s \in 1..Len(sockets) :
          OnMessage(s, GroupDoesNotExistFrame)
              => /\ currentGroup' = Null
                 /\ ~isEnabled'
                 /\ connectionStatus' = "disconnected"
                 /\ ws' = Null
                 /\ LiveSockets' = {}]_vars

\* C13: when leaveGroup completes, whether the server call succeeded or failed, the
\* current group is null, synchronization is disabled, the channel is disconnected
\* (no socket held, none open or connecting) and the status is 'disconnected'.
C13_LeaveTeardown ==
    [][\A t \in tasks, ok \in BOOLEAN :
          LeaveGroupDone(t, ok)
              => /\ currentGroup' = Null
                 /\ ~isEnabled'
                 /\ connectionStatus' = "disconnected"
                 /\ ws' = Null
                 /\ LiveSockets' = {}]_vars

\* C15: when the server call of createGroup or joinGroup fails, the operation ends
\* with synchronization as disabled as before, the current group unchanged, an error
\* set, and no socket open or connecting that was not so before the operation.
C15_NoPartialEnablement ==
    [][\A t \in tasks :
          ((\E group \in GroupInfos : CreateGroupDone(t, FALSE, group))
              \/ JoinGroupDone(t, FALSE))
              => /\ isEnabled' = isEnabled
                 /\ currentGroup' = currentGroup
                 /\ error' # Null
                 /\ LiveSockets' \subseteq t.liveBefore]_vars

\* C16: when the server call of createGroup or joinGroup succeeds, the operation ends
\* with a current group set, synchronization enabled, a socket created, and the
\* clock synchronizer as forceUpdate leaves it: greedy interval, ping count 0.
C16_CreateJoinSuccess ==
    [][\A t \in tasks :
          ((\E group \in GroupInfos : CreateGroupDone(t, TRUE, group))
              \/ JoinGroupDone(t, TRUE))
              => /\ currentGroup' # Null
                 /\ isEnabled'
                 /\ Len(sockets') > 0
                 /\ t.kind = "createGroup" => LiveSockets' # {}
                 /\ pollingInterval' = PollingIntervalGreedy
                 /\ pings' = 0]_vars

(***************************************************************************)
(* SpecLeave: a queue and a scheduled command, then leaveGroup             *)
(***************************************************************************)
\* The PlayQueue payloads of SpecLeave: a new playlist of two items, no playlist.
LeaveQueues ==
    { q \in PlayQueues : q.Reason = "NewPlaylist" /\ q.PlayingItemIndex = 0
                            /\ q.Playlist # Some(<<>>) }

NextLeave ==
    \/ \E q \in LeaveQueues : HandlePlayQueue(q) /\ UNCHANGED <<frVars, uiVars>>
    \/ \E t \in tasks, outcome \in FetchOutcomes : FetchMediaDetailsDone(t, outcome)
    \/ \E c \in Commands : HandleCommand(c) /\ UNCHANGED <<frVars, uiVars>>
    \/ \E t \in timers : TimerFire(t)
    \/ \E t \in Instants : Tick(t)
    \/ LeaveGroup
    \/ \E t \in tasks, ok \in BOOLEAN : LeaveGroupDone(t, ok)

SpecLeave == Init /\ [][NextLeave]_vars

\* C14: when leaveGroup completes, on the success and on the failure path, the
\* playlist is empty, the current playlist-item id is null and no command is pending
\* (no command timer is armed).
C14_LeaveClearsQueue ==
    [][\A t \in tasks, ok \in BOOLEAN :
          LeaveGroupDone(t, ok)
              => /\ currentPlaylist' = <<>>
                 /\ currentPlayingItemIdRef' = Null
                 /\ timers' = {}
                 /\ scheduledTimeouts' = {}]_vars

(***************************************************************************)
(* SpecOutbound: the local player's requests, in a group and out of one,   *)
(* before and after a PlayQueue update has set the processing flag         *)
(***************************************************************************)
NextOutbound ==
    \/ CreateGroup
    \/ \E t \in tasks, ok \in BOOLEAN, group \in GroupInfos : CreateGroupDone(t, ok, group)
    \/ \E q \in LeaveQueues : HandlePlayQueue(q) /\ UNCHANGED <<frVars, uiVars>>
    \/ \E t \in tasks, outcome \in FetchOutcomes : FetchMediaDetailsDone(t, outcome)
    \/ RequestPause
    \/ RequestUnpause
    \/ RequestStop
    \/ RequestSeek

SpecOutbound == Init /\ [][NextOutbound]_vars

\* C24: a pause, unpause, stop or seek request of the local player reaches the
\* server only if it is made while synchronization is enabled, a current group
\* exists and isProcessingSyncPlayUpdate is not set.
C24_OutboundGating ==
    \A i \in 1..Len(localRequests) :
        localRequests[i].issued
            => /\ localRequests[i].enabled
               /\ localRequests[i].hasGroup
               /\ ~localRequests[i].processing

(***************************************************************************)
(* SpecCancel: commands scheduled in a group, then the group is left or    *)
(* reported gone                                                           *)
(***************************************************************************)
NextCancel ==
    \/ \E c \in Commands : HandleCommand(c) /\ UNCHANGED <<frVars, uiVars>>
    \/ \E t \in timers : TimerFire(t)
    \/ \E t \in Instants : Tick(t)
    \/ LeaveGroup
    \/ \E t \in tasks, ok \in BOOLEAN : LeaveGroupDone(t, ok)
    \/ HandleGroupDoesNotExist /\ UNCHANGED <<frVars, uiVars>>

SpecCancel == Init /\ [][NextCancel]_vars

\* C25: when leaveGroup completes or a GroupDoesNotExist update has been handled, no
\* timer of the command scheduler is armed any more, so that no command scheduled
\* before the teardown is dispatched after it.
C25_CancellationOnLeave ==
    [][((\E t \in tasks, ok \in BOOLEAN : LeaveGroupDone(t, ok))
           \/ (HandleGroupDoesNotExist /\ UNCHANGED <<frVars, uiVars>>))
          => timers' = {}]_vars

(***************************************************************************)
(* SpecInterleave: commands that arrive while the estimate is stale, so    *)
(* that several scheduleCommand calls are suspended at their await         *)
(***************************************************************************)
\* The commands of SpecInterleave, due after the estimate has gone stale: the first
\* two have the same command key and differ in PlaylistItemId only.
LateCommands ==
    { SyncPlayCommand(StartTime + 36000, 0, "Stop", "a"),
      SyncPlayCommand(StartTime + 36000, 0, "Stop", "b"),
      SyncPlayCommand(StartTime + 2000, 500000000, "Pause", "a"),
      SyncPlayCommand(StartTime + 2000, 500000000, "Pause", "b") }

\* The ping exchanges of SpecInterleave: the server clock 500 ms ahead, measured with
\* a delay of 3 ms (offset 500.5 ms), and 300 ms ahead, measured with a delay of 2 ms,
\* so that a later sample can replace the active one.
ResyncPingShapes == { <<2, 1, 500>>, <<1, 1, 300>> }

NextInterleave ==
    \/ StartPing
    \/ \E p \in ResyncPingShapes : PingResponse(p)
    \/ \E t \in Instants : Tick(t)
    \/ \E c \in LateCommands : HandleCommand(c) /\ UNCHANGED <<frVars, uiVars>>
    \/ \E t \in timers : TimerFire(t)

SpecInterleave == Init /\ [][NextInterleave]_vars

\* C26: in every reachable state, also after several scheduleCommand calls were
\* suspended at their await, no two armed timers have the same command key.
C26_OneTimerPerKey ==
    \A t1, t2 \in timers : t1.key = t2.key => t1 = t2

\* C27: no two dispatches to the player are for commands of the same command key
\* (clearExecutedCommands is never called).
C27_DispatchAtMostOnce ==
    \A i, j \in 1..Len(dispatched) :
        CommandKey(handled[dispatched[i].call].command)
            = CommandKey(handled[dispatched[j].call].command) => i = j

\* C37: a scheduleCommand call that was suspended at its await when
\* clearScheduledCommands ran (every later scheduleCommand call begins with it, so
\* every suspended call but the last one) is cancelled for good: when the
\* resynchronization completes no timer is armed for it and it is not dispatched.
C37_CancellationFinal ==
    [][\A p \in ResyncPingShapes :
          PingResponse(p)
              => \A k \in 1..(Len(awaitingSync) - 1) :
                    /\ \A t \in timers' : t.call # awaitingSync[k].call
                    /\ \A i \in 1..Len(dispatched') :
                          dispatched'[i].call # awaitingSync[k].call]_vars

====
